---- MODULE Spec2Model ----
(***************************************************************************)
(* srx: symbol-ranking compressor.  A model of the codec (primary model,   *)
(* secondary model, 32-bit binary range coder), of the double-buffered     *)
(* pipe that connects the stages, of the encode and decode pipelines and   *)
(* of the command-line driver's header handling.                           *)
(*                                                                         *)
(* 32-bit words.  TLC's integers are 32-bit signed, so a u32 of the        *)
(* program is kept as its four bytes, most significant first:              *)
(* 0x01020304 is <<1, 2, 3, 4>>.  All arithmetic on words is done on the   *)
(* bytes with explicit carries, so wrap-around happens where the program's *)
(* u32 arithmetic wraps, and the u64 product of the range coder is the     *)
(* full 8-byte product.                                                    *)
(***************************************************************************)
EXTENDS Integers, Sequences, FiniteSets, TLC

\* ------------------------------------------------------------------------
\* u32 arithmetic on four bytes, most significant first
\* ------------------------------------------------------------------------

U32Zero == <<0, 0, 0, 0>>

U32Max == <<255, 255, 255, 255>>

\* a < b and a <= b on u32
U32Lt(a, b) ==
    \/ a[1] < b[1]
    \/ a[1] = b[1] /\ a[2] < b[2]
    \/ a[1] = b[1] /\ a[2] = b[2] /\ a[3] < b[3]
    \/ a[1] = b[1] /\ a[2] = b[2] /\ a[3] = b[3] /\ a[4] < b[4]

U32Le(a, b) == a = b \/ U32Lt(a, b)

\* a + b as a 5-byte result: the carry out of bit 31, then the u32 sum
U32AddWide(a, b) ==
    LET s0 == a[4] + b[4]
        s1 == a[3] + b[3] + (s0 \div 256)
        s2 == a[2] + b[2] + (s1 \div 256)
        s3 == a[1] + b[1] + (s2 \div 256)
    IN  <<s3 \div 256, s3 % 256, s2 % 256, s1 % 256, s0 % 256>>

\* u32::wrapping_add
U32Add(a, b) == SubSeq(U32AddWide(a, b), 2, 5)

\* TRUE iff a + b does not fit 32 bits
U32AddOverflows(a, b) == U32AddWide(a, b)[1] # 0

\* u32::wrapping_sub: a + ~b + 1
U32Sub(a, b) ==
    LET s0 == a[4] + (255 - b[4]) + 1
        s1 == a[3] + (255 - b[3]) + (s0 \div 256)
        s2 == a[2] + (255 - b[2]) + (s1 \div 256)
        s3 == a[1] + (255 - b[1]) + (s2 \div 256)
    IN  <<s3 % 256, s2 % 256, s1 % 256, s0 % 256>>

U32One == <<0, 0, 0, 1>>

\* the u64 product a * b of two u32, as 8 bytes, most significant first
U64Mul(a, b) ==
    LET x == [i \in 0..3 |-> a[4 - i]]
        y == [i \in 0..3 |-> b[4 - i]]
        col == <<x[0] * y[1] + x[1] * y[0],
                 x[0] * y[2] + x[1] * y[1] + x[2] * y[0],
                 x[0] * y[3] + x[1] * y[2] + x[2] * y[1] + x[3] * y[0],
                 x[1] * y[3] + x[2] * y[2] + x[3] * y[1],
                 x[2] * y[3] + x[3] * y[2],
                 x[3] * y[3],
                 0>>
        t[k \in 0..7] == IF k = 0 THEN x[0] * y[0] ELSE col[k] + (t[k - 1] \div 256)
    IN  [i \in 1..8 |-> t[8 - i] % 256]

\* ((a as u64 * b as u64) >> 32) as u32
MulShift32(a, b) == SubSeq(U64Mul(a, b), 1, 4)

\* x << 8 and (x << 8) | byte on u32
Shl8(x) == <<x[2], x[3], x[4], 0>>

Shl8Or(x, byte) == <<x[2], x[3], x[4], byte>>

\* (high ^ low) < 0x01000000: the top bytes agree
TopBytesEqual(low, high) == low[1] = high[1]

\* ------------------------------------------------------------------------
\* secondary_context/prediction.rs: adaptive bit prediction
\* ------------------------------------------------------------------------

\* quotient digits of the base-256 number digs divided by d (1 <= d <= 257),
\* most significant first; rem is the running remainder
RECURSIVE LongDiv(_, _, _)
LongDiv(digs, d, rem) ==
    IF digs = <<>> THEN <<>>
    ELSE LET cur == rem * 256 + Head(digs)
         IN  <<cur \div d>> \o LongDiv(Tail(digs), d, cur % d)

\* digs >> 1 on a base-256 number, most significant first
RECURSIVE ShiftRight1(_, _)
ShiftRight1(digs, carry) ==
    IF digs = <<>> THEN <<>>
    ELSE <<(carry * 256 + Head(digs)) \div 2>>
             \o ShiftRight1(Tail(digs), Head(digs) % 2)

\* MULTIPLIER[i] == 0x1_0000_0000 / (i + 2) but rounded:
\*   div = (1 << 33) / (i + 2);  table[i] = (div >> 1) + (div & 1)
MULTIPLIER ==
    [i \in 0..255 |->
        LET div == LongDiv(<<2, 0, 0, 0, 0>>, i + 2, 0)
            half == ShiftRight1(div, 0)
        IN  U32Add(SubSeq(half, 2, 5), <<0, 0, 0, div[5] % 2>>)]

\* BitPrediction::new
BitPredictionNew == <<128, 0, 0, 0>>

\* BitPrediction::get: self.0 & 0xFFFFFF00
BitPredictionGet(s) == <<s[1], s[2], s[3], 0>>

\* (((bit_shift - old_prediction as i64) * multiplier) >> 32) as u32, where
\* bit_shift is 0 for Bit::Zero and 1 << 32 for Bit::One.  For bit One the
\* i64 is 2^32 - old >= 0x100; for bit Zero it is -old, and the arithmetic
\* shift rounds the negative product toward minus infinity.
RoundedUp(prod) ==
    IF SubSeq(prod, 5, 8) = U32Zero THEN SubSeq(prod, 1, 4)
    ELSE U32Add(SubSeq(prod, 1, 4), U32One)

NewPrediction(old, multiplier, bit) ==
    IF bit = 1
    THEN IF old = U32Zero THEN multiplier
         ELSE MulShift32(U32Sub(U32Zero, old), multiplier)
    ELSE U32Sub(U32Zero, RoundedUp(U64Mul(old, multiplier)))

\* BitPrediction::update: the state after coding bit (the value returned is
\* BitPredictionGet of the state before); Increment is what is added:
\* (new_prediction & 0xFFFFFF00) + if count < 255 { 1 } else { 0 }
Increment(new_prediction, count) ==
    <<new_prediction[1], new_prediction[2], new_prediction[3],
      IF count < 255 THEN 1 ELSE 0>>

BitPredictionUpdate(s, bit) ==
    U32Add(s, Increment(NewPrediction(BitPredictionGet(s), MULTIPLIER[s[4]], bit), s[4]))

\* ------------------------------------------------------------------------
\* secondary_context/encoder.rs and decoder.rs: the binary range coder
\* ------------------------------------------------------------------------

\* BitEncoder::new
BitEncoderNew == [low |-> U32Zero, high |-> U32Max]

\* BitDecoder::new
BitDecoderNew == [value |-> U32Zero, low |-> U32Zero, high |-> U32Zero]

\* a coder that takes the interval's width as high - low + 1
Delta_InclusiveWidth(low, high, prediction) ==
    MulShift32(U32Add(U32Sub(high, low), U32One), prediction)

\* delta = (((high - low) as u64 * prediction as u64) >> 32) as u32
Delta(low, high, prediction) == MulShift32(U32Sub(high, low), prediction)

\* middle = low + delta (u32 addition)
Middle(low, high, prediction) == U32Add(low, Delta(low, high, prediction))

\* set new range limit: Zero moves low to middle + 1, One moves high to middle
NarrowRange(c, middle, bit) ==
    IF bit = 0 THEN [c EXCEPT !.low = U32Add(middle, U32One)]
    ELSE [c EXCEPT !.high = middle]

\* BitEncoder::bit up to the renormalization loop
EncoderSplit(c, prediction, bit) ==
    NarrowRange(c, Middle(c.low, c.high, prediction), bit)

\* a loop that ends as soon as (self.high ^ self.low) >= 0x00010000
NeedShift_TwoBytes(c) == c.low[1] = c.high[1] /\ c.low[2] = c.high[2]

\* the loop condition (self.high ^ self.low) < 0x01000000
NeedShift(c) == TopBytesEqual(c.low, c.high)

\* one iteration of the encoder's loop: the byte written and the new state
EncoderShiftByte(c) == c.low[1]

\* an encoder that shifts high without filling in 0xFF
EncoderShift_NoFill(c) == [c EXCEPT !.low = Shl8(c.low), !.high = Shl8(c.high)]

\* a shift that fills low with ones as it does high
EncoderShift_LowFilled(c) ==
    [c EXCEPT !.low = Shl8Or(c.low, 255), !.high = Shl8Or(c.high, 255)]

EncoderShift(c) == [c EXCEPT !.low = Shl8(c.low), !.high = Shl8Or(c.high, 255)]

\* a decoder that shifts high without filling in 0xFF
DecoderShift_NoFill(c, byte) ==
    [value |-> Shl8Or(c.value, byte), low |-> Shl8(c.low), high |-> Shl8(c.high)]

\* one iteration of the decoder's loop with the byte read (255 past the end)
DecoderShift(c, byte) ==
    [value |-> Shl8Or(c.value, byte), low |-> Shl8(c.low), high |-> Shl8Or(c.high, 255)]

\* a decoder with the comparison the other way round: One iff middle <= value
DecoderBit_Reversed(c, prediction) ==
    IF U32Le(Middle(c.low, c.high, prediction), c.value) THEN 1 ELSE 0

\* the bit the decoder derives: One iff value <= middle
DecoderBit(c, prediction) ==
    IF U32Le(c.value, Middle(c.low, c.high, prediction)) THEN 1 ELSE 0

\* BitDecoder::bit after its loop: the new state
DecoderSplit(c, prediction) ==
    NarrowRange(c, Middle(c.low, c.high, prediction), DecoderBit(c, prediction))


\* ------------------------------------------------------------------------
\* primary_context: the state table, a slot (ByteHistory), the context table
\* ------------------------------------------------------------------------

\* test.rs: the bounds of the three counts of a state
MAX_FIRST == 67

MAX_SECOND == 7

MAX_THIRD == 3

\* test.rs: range, increase, dec_nz
Range(value, max) == IF value >= max THEN max ELSE value

Increase(value, max) == Range(value + 1, max)

DecNz_Kept(value, max) == Range(value, max)

DecNz(value, max) == Range(IF value > 1 THEN value - 1 ELSE value, max)

\* A state of the table is the triple of counts it was generated from; the
\* table's index of a state is its rank in the order by (first, second,
\* third), so index 0, the state of a new slot, is (0, 0, 0).
StateZero == [first |-> 0, second |-> 0, third |-> 0]

NextIfFirst(current) ==
    IF current.first <= 31
    THEN [first |-> Increase(current.first, MAX_FIRST),
          second |-> DecNz(current.second, MAX_SECOND),
          third |-> DecNz(current.third, MAX_THIRD)]
    ELSE [first |-> Increase(current.first, MAX_FIRST), second |-> 1, third |-> 1]

NextIfSecond(current) ==
    [first |-> Range(current.second, MAX_FIRST),
     second |-> Range(current.first, MAX_SECOND),
     third |-> DecNz(current.third, MAX_THIRD)]

NextIfThird(current) ==
    [first |-> Range(current.third, MAX_FIRST),
     second |-> Range(current.first, MAX_SECOND),
     third |-> DecNz(current.second, MAX_THIRD)]

NextIfMiss(current) ==
    [first |-> 0,
     second |-> Range(current.first, MAX_SECOND),
     third |-> DecNz(current.second, MAX_THIRD)]

\* HistoryState::next
HistoryStateNext(current, matched) ==
    CASE matched = "FIRST" -> NextIfFirst(current)
      [] matched = "SECOND" -> NextIfSecond(current)
      [] matched = "THIRD" -> NextIfThird(current)
      [] OTHER -> NextIfMiss(current)

\* HistoryState::get: first_count, the match count
MatchCount(state) == state.first

\* ByteHistory(0)
ByteHistoryNew == [first |-> 0, second |-> 0, third |-> 0, state |-> StateZero]

\* a matching that does not look at the first byte of the slot
ByteHistoryMatching_FirstUnchecked(history, next_byte) ==
    IF next_byte = history.second THEN "SECOND"
    ELSE IF next_byte = history.third THEN "THIRD"
    ELSE "NONE"

\* ByteHistory::matching: the outcome
ByteHistoryMatching(history, next_byte) ==
    IF next_byte = history.first THEN "FIRST"
    ELSE IF next_byte = history.second THEN "SECOND"
    ELSE IF next_byte = history.third THEN "THIRD"
    ELSE "NONE"

\* ByteHistory::matched: the slot after the outcome
ByteHistoryMatched(history, next_byte, matched) ==
    LET bytes ==
            CASE matched = "FIRST" ->
                     <<history.first, history.second, history.third>>
              [] matched = "SECOND" ->
                     <<next_byte, history.first, history.third>>
              [] OTHER ->
                     <<next_byte, history.first, history.second>>
    IN  [first |-> bytes[1], second |-> bytes[2], third |-> bytes[3],
         state |-> HistoryStateNext(history.state, matched)]

\* PRIMARY_CONTEXT_SIZE = 1 << 24
PRIMARY_CONTEXT_SIZE == 16777216

\* a hash that is never updated
NextHash_Unchanged(hash_value, next_byte) == hash_value

\* a hash of the last byte only
NextHash_LastByte(hash_value, next_byte) == next_byte + 1

\* a hash with the multiplier 1 << 5 in place of 5 << 5
NextHash_Times32(hash_value, next_byte) ==
    (((hash_value % 524288) * 32) + next_byte + 1) % PRIMARY_CONTEXT_SIZE

\* (hash_value * (5 << 5) + next_byte + 1) % SIZE.  The product needs more
\* than 31 bits, so the multiples of SIZE are taken out of it first:
\* 160 * 2^19 = 5 * SIZE.
NextHash(hash_value, next_byte) ==
    (((hash_value % 524288) * 160) + next_byte + 1) % PRIMARY_CONTEXT_SIZE

\* a table of which only the written entries are kept
TableGet(table, index, default) ==
    IF index \in DOMAIN table THEN table[index] ELSE default

TablePut(table, index, value) ==
    (index :> value) @@ table

\* PrimaryContext::new
PrimaryContextNew == [previous_byte |-> 0, hash_value |-> 0, context |-> <<>>]

\* PrimaryContext::get_history
GetHistory(pc) == TableGet(pc.context, pc.hash_value, ByteHistoryNew)

\* the slot at the hash after the update is the one written
PrimaryContextMatched_SlotAfterHash(pc, next_byte, matched) ==
    [previous_byte |-> next_byte,
     hash_value |-> NextHash(pc.hash_value, next_byte),
     context |-> TablePut(pc.context, NextHash(pc.hash_value, next_byte),
                          ByteHistoryMatched(GetHistory(pc), next_byte, matched))]

\* PrimaryContext::matched
PrimaryContextMatched(pc, next_byte, matched) ==
    [previous_byte |-> next_byte,
     hash_value |-> NextHash(pc.hash_value, next_byte),
     context |-> TablePut(pc.context, pc.hash_value,
                          ByteHistoryMatched(GetHistory(pc), next_byte, matched))]

\* PrimaryContext::matching: the outcome (the state after it is
\* PrimaryContextMatched with this outcome)
PrimaryContextMatching(pc, next_byte) ==
    ByteHistoryMatching(GetHistory(pc), next_byte)

\* ------------------------------------------------------------------------
\* bridged_context.rs: the secondary context indices of a slot
\* ------------------------------------------------------------------------

Min(a, b) == IF a <= b THEN a ELSE b

\* a match count capped at 64 above 4 instead of 63
BridgedContextInfoNew_Cap64(previous_byte, history, hash_value) ==
    LET match_count == MatchCount(history.state)
    IN  [first_byte |-> history.first,
         second_byte |-> history.second,
         third_byte |-> history.third,
         bit_context |->
             16384 * 256
             + (IF match_count < 4
                THEN previous_byte * 4 + match_count
                ELSE 1024 + (Min(match_count - 4, 64) \div 2)) * 768,
         literal_context |-> (hash_value % 16384) * 256]

\* BridgedContextInfo::new
BridgedContextInfoNew(previous_byte, history, hash_value) ==
    LET match_count == MatchCount(history.state)
    IN  [first_byte |-> history.first,
         second_byte |-> history.second,
         third_byte |-> history.third,
         bit_context |->
             16384 * 256
             + (IF match_count < 4
                THEN previous_byte * 4 + match_count
                ELSE 1024 + (Min(match_count - 4, 63) \div 2)) * 768,
         literal_context |-> (hash_value % 16384) * 256]

\* the info of the slot the next byte is matched against
ContextInfo(pc) == BridgedContextInfoNew(pc.previous_byte, GetHistory(pc), pc.hash_value)

FirstContext(info) == info.bit_context + info.first_byte

\* second_byte.wrapping_add(third_byte)
SecondContext(info) ==
    info.bit_context + 256 + ((info.second_byte + info.third_byte) % 256)

\* second_byte.wrapping_mul(2).wrapping_sub(third_byte)
ThirdContext(info) ==
    info.bit_context + 512 + ((2 * info.second_byte + 256 - info.third_byte) % 256)


\* ------------------------------------------------------------------------
\* secondary_context/context.rs: the table of bit predictions
\* ------------------------------------------------------------------------

\* SECONDARY_CONTEXT_SIZE = 0x4000 * 256 + (1024 + 32) * 768
SECONDARY_CONTEXT_SIZE == 5005312

\* SecondaryContext::new: every entry is BitPrediction::new()
SecondaryContextNew == <<>>

\* SecondaryContext::get: the prediction of an entry
SecondaryContextGet(table, context_index) ==
    BitPredictionGet(TableGet(table, context_index, BitPredictionNew))

\* SecondaryContext::update: the table after the bit (the value returned is
\* SecondaryContextGet of the table before)
SecondaryContextUpdate(table, context_index, bit) ==
    TablePut(table, context_index,
             BitPredictionUpdate(TableGet(table, context_index, BitPredictionNew), bit))

\* CombinedContextDecoder::bit: self.secondary_context.get_info(context_index)
\* .prediction(), the prediction of the entry as the decoder reads it before
\* the bit is decoded
DecoderPrediction(table, context_index) == SecondaryContextGet(table, context_index)

\* an update that returns the prediction it has just stored
SecondaryContextUpdated_NewPrediction(table, context_index, bit) ==
    BitPredictionGet(
        BitPredictionUpdate(TableGet(table, context_index, BitPredictionNew), bit))

\* SecondaryContext::update: the value returned, old_prediction of
\* BitPrediction::update (self.0 & 0xFFFFFF00, taken before self.0 is set)
SecondaryContextUpdated(table, context_index, bit) ==
    LET old == TableGet(table, context_index, BitPredictionNew)
    IN  <<old[1], old[2], old[3], 0>>

\* ------------------------------------------------------------------------
\* codec/encoder.rs: messages from the primary to the secondary stage
\* ------------------------------------------------------------------------

\* a | b on 8 bits
Or8(a, b) ==
    LET BitOf(k) ==
            IF (a \div (2 ^ k)) % 2 = 1 \/ (b \div (2 ^ k)) % 2 = 1 THEN 2 ^ k ELSE 0
    IN  BitOf(0) + BitOf(1) + BitOf(2) + BitOf(3) + BitOf(4) + BitOf(5) + BitOf(6) + BitOf(7)

\* context as u32, most significant byte first
ToU32(n) == <<(n \div 16777216) % 256, (n \div 65536) % 256, (n \div 256) % 256, n % 256>>

\* PackedMessage::bit: u32::from(bit) << 30 | context as u32
PackedMessageBit(context, bit) ==
    LET c == ToU32(context) IN <<Or8(bit * 64, c[1]), c[2], c[3], c[4]>>

\* PackedMessage::byte: 0x80000000 | context as u32 | byte as u32
PackedMessageByte(context, byte) ==
    LET c == ToU32(context) IN <<Or8(128, c[1]), c[2], c[3], Or8(c[4], byte)>>

\* a get that leaves the byte in the context of a Byte message
PackedMessageGet_ByteInContext(m) ==
    IF m[1] < 128
    THEN [kind |-> "Bit",
          context |-> (m[1] % 64) * 16777216 + m[2] * 65536 + m[3] * 256 + m[4],
          value |-> IF m[1] \div 64 # 0 THEN 1 ELSE 0]
    ELSE [kind |-> "Byte",
          context |-> (m[1] % 128) * 16777216 + m[2] * 65536 + m[3] * 256 + m[4],
          value |-> m[4]]

\* PackedMessage::get: Message::Bit(context, bit) or Message::Byte(context, byte)
PackedMessageGet(m) ==
    IF m[1] < 128
    THEN [kind |-> "Bit",
          context |-> (m[1] % 64) * 16777216 + m[2] * 65536 + m[3] * 256 + m[4],
          value |-> IF m[1] \div 64 # 0 THEN 1 ELSE 0]
    ELSE [kind |-> "Byte",
          context |-> (m[1] % 128) * 16777216 + m[2] * 65536 + m[3] * 256,
          value |-> m[4]]

\* an end whose literal is always 0x00
EofMessages_LiteralZero(info) ==
    <<PackedMessageBit(FirstContext(info), 1),
      PackedMessageBit(SecondContext(info), 0),
      PackedMessageByte(info.literal_context, 0)>>

\* run_primary_context_encoder, the None arm: the messages of the end
EofMessages(info) ==
    <<PackedMessageBit(FirstContext(info), 1),
      PackedMessageBit(SecondContext(info), 0),
      PackedMessageByte(info.literal_context, info.first_byte)>>

\* run_primary_context_encoder, the Some arm: the messages of a byte
ByteMessages(info, matched, current_byte) ==
    CASE matched = "FIRST" ->
             <<PackedMessageBit(FirstContext(info), 0)>>
      [] matched = "NONE" ->
             <<PackedMessageBit(FirstContext(info), 1),
               PackedMessageBit(SecondContext(info), 0),
               PackedMessageByte(info.literal_context, current_byte)>>
      [] matched = "SECOND" ->
             <<PackedMessageBit(FirstContext(info), 1),
               PackedMessageBit(SecondContext(info), 1),
               PackedMessageBit(ThirdContext(info), 0)>>
      [] OTHER ->
             <<PackedMessageBit(FirstContext(info), 1),
               PackedMessageBit(SecondContext(info), 1),
               PackedMessageBit(ThirdContext(info), 1)>>

\* The context info run_primary_context_encoder reads from its
\* BridgedPrimaryContext through first_context(), second_context(),
\* third_context(), literal_context() and first_byte().  In the Some arm they
\* are called after context.matching(byte), and give the info of the slot the
\* byte was matched against (before is the context before that call); in the
\* None arm they give the info of the slot the next byte would be matched
\* against.  It is what the decoder codes the byte, or the end, under.
EncoderInfo(before) == ContextInfo(before)

\* a literal coded low nibble first
ByteEvents_LowNibbleFirst(context_index, byte) ==
    LET high == (byte % 16) + 16
        low_context == context_index + 15 * (high - 15)
        low == (byte \div 16) + 16
    IN  <<<<context_index + 1, (high \div 8) % 2>>,
          <<context_index + (high \div 8), (high \div 4) % 2>>,
          <<context_index + (high \div 4), (high \div 2) % 2>>,
          <<context_index + (high \div 2), high % 2>>,
          <<low_context + 1, (low \div 8) % 2>>,
          <<low_context + (low \div 8), (low \div 4) % 2>>,
          <<low_context + (low \div 4), (low \div 2) % 2>>,
          <<low_context + (low \div 2), low % 2>>>>

\* a literal whose low blocks start at the high nibble's own contexts
ByteEvents_LowBlockFromZero(context_index, byte) ==
    LET high == (byte \div 16) + 16
        low_context == context_index + 15 * (high - 16)
        low == (byte % 16) + 16
    IN  <<<<context_index + 1, (high \div 8) % 2>>,
          <<context_index + (high \div 8), (high \div 4) % 2>>,
          <<context_index + (high \div 4), (high \div 2) % 2>>,
          <<context_index + (high \div 2), high % 2>>,
          <<low_context + 1, (low \div 8) % 2>>,
          <<low_context + (low \div 8), (low \div 4) % 2>>,
          <<low_context + (low \div 4), (low \div 2) % 2>>,
          <<low_context + (low \div 2), low % 2>>>>

\* SecondaryContextEncoder::byte: the <<context, bit>> pairs of a literal
ByteEvents(context_index, byte) ==
    LET high == (byte \div 16) + 16
        low_context == context_index + 15 * (high - 15)
        low == (byte % 16) + 16
    IN  <<<<context_index + 1, (high \div 8) % 2>>,
          <<context_index + (high \div 8), (high \div 4) % 2>>,
          <<context_index + (high \div 4), (high \div 2) % 2>>,
          <<context_index + (high \div 2), high % 2>>,
          <<low_context + 1, (low \div 8) % 2>>,
          <<low_context + (low \div 8), (low \div 4) % 2>>,
          <<low_context + (low \div 4), (low \div 2) % 2>>,
          <<low_context + (low \div 2), low % 2>>>>

\* SecondaryContextEncoder::encode: the <<context, bit>> pairs of a message
MessageEvents(m) ==
    LET message == PackedMessageGet(m)
    IN  IF message.kind = "Bit"
        THEN <<<<message.context, message.value>>>>
        ELSE ByteEvents(message.context, message.value)


\* ------------------------------------------------------------------------
\* basic/pipe.rs: the double-buffered pipe
\*
\* A pipe is a record.  The two buffers are numbered 1 and 2; 0 stands for
\* None.  Of a buffer only the elements below the writer's index (or the
\* length sent with it) are kept: the rest is never read.
\*   wbuf, wdata   PipedWriter.buffer and its first index elements
\*   wpc           "ready", or where PipedWriter::sync is: "send", "recv"
\*   fwd           the channel writer -> reader: <<buffer, elements>> pairs
\*   back          the channel reader -> writer: buffers
\*   rbuf, rdata, rindex   PipedReader.buffer, its first length elements, index
\*   rold          the old buffer PipedReader::sync holds while it receives
\*   rpc           "ready", or where PipedReader::sync is: "recv", "send"
\*   walive, ralive   FALSE once that end has been dropped
\* ------------------------------------------------------------------------

\* pipe(): the two halves, one buffer each, both channels empty
NewPipe(size) ==
    [size |-> size,
     wbuf |-> 1, wdata |-> <<>>, wpc |-> "ready", walive |-> TRUE,
     fwd |-> <<>>, back |-> <<>>,
     rbuf |-> 2, rdata |-> <<>>, rindex |-> 0, rold |-> 0,
     rpc |-> "ready", ralive |-> TRUE]

\* a writer whose index does not advance: the elements go to buffer[0..]
WriterPut_IndexKept(p, elems) ==
    [p EXCEPT !.wdata = elems,
              !.wpc = IF Len(elems) = p.size THEN "send" ELSE "ready"]

\* a writer that enters sync only once index has passed SIZE
WriterPut_SyncLate(p, elems) ==
    [p EXCEPT !.wdata = p.wdata \o elems,
              !.wpc = IF Len(p.wdata) + Len(elems) > p.size THEN "send" ELSE "ready"]

\* PipedWriter::write / produce: the elements go to buffer[index..], and the
\* call enters sync when index == SIZE
WriterPut(p, elems) ==
    [p EXCEPT !.wdata = p.wdata \o elems,
              !.wpc = IF Len(p.wdata) + Len(elems) = p.size THEN "send" ELSE "ready"]

\* a close that syncs whenever the writer holds a buffer
WriterCloseSyncs_EmptyToo(p) == p.wbuf # 0

\* PipedWriter::close: sync if buffer.is_some() && index > 0
WriterCloseSyncs(p) == p.wbuf # 0 /\ Len(p.wdata) > 0

\* sync: self.sender.send((buffer, self.index)) returns (does not block) when
\* the receiver is gone or the channel has room
WriterSendEnabled(p) == p.wpc = "send" /\ (~p.ralive \/ Len(p.fwd) < 1)

\* a send that does not notice that the receiver is gone
WriterSendOk_Unchecked(p) == TRUE

\* send is Ok iff the receiver is alive
WriterSendOk(p) == p.ralive

\* a sync that keeps the buffer it has sent and does not wait for another
WriterSend_BufferKept(p) ==
    IF WriterSendOk(p)
    THEN [p EXCEPT !.fwd = Append(p.fwd, <<p.wbuf, p.wdata>>),
                   !.wdata = <<>>, !.wpc = "ready"]
    ELSE [p EXCEPT !.wbuf = 0, !.wdata = <<>>, !.wpc = "ready"]

\* sync: the buffer was taken; it is now in the channel, or lost with the error
WriterSend(p) ==
    IF WriterSendOk(p)
    THEN [p EXCEPT !.fwd = Append(p.fwd, <<p.wbuf, p.wdata>>),
                   !.wbuf = 0, !.wdata = <<>>, !.wpc = "recv"]
    ELSE [p EXCEPT !.wbuf = 0, !.wdata = <<>>, !.wpc = "ready"]

\* sync: self.receiver.recv() returns when a buffer is there or the sender is gone
WriterRecvEnabled(p) == p.wpc = "recv" /\ (Len(p.back) > 0 \/ ~p.ralive)

WriterRecvOk(p) == Len(p.back) > 0

\* sync: self.buffer = Some(recv()?); self.index = 0
WriterRecv(p) ==
    IF WriterRecvOk(p)
    THEN [p EXCEPT !.wbuf = Head(p.back), !.back = Tail(p.back),
                   !.wdata = <<>>, !.wpc = "ready"]
    ELSE [p EXCEPT !.wpc = "ready"]

\* the PipedWriter is dropped: its buffer, its sender and its receiver go
WriterDrop(p) ==
    [p EXCEPT !.walive = FALSE, !.wbuf = 0, !.wdata = <<>>, !.back = <<>>,
              !.wpc = "ready"]

\* PipedReader::sync: !self.buffer.is_none() && self.index >= self.length
ReaderNeedsSync(p) == p.rbuf # 0 /\ p.rindex >= Len(p.rdata)

\* a sync that takes the old buffer and leaves it in self.buffer as well
ReaderTake_BufferKept(p) == [p EXCEPT !.rold = p.rbuf, !.rpc = "recv"]

\* sync: take the old buffer and set it to None
ReaderTake(p) == [p EXCEPT !.rold = p.rbuf, !.rbuf = 0, !.rpc = "recv"]

\* sync: self.receiver.recv() returns when a buffer is there or the sender is gone
ReaderRecvEnabled(p) == p.rpc = "recv" /\ (Len(p.fwd) > 0 \/ ~p.walive)

ReaderRecvOk(p) == Len(p.fwd) > 0

\* a sync that sets index to 1 for the new buffer
ReaderRecv_IndexOne(p) ==
    IF Len(p.fwd) > 0
    THEN [p EXCEPT !.rbuf = Head(p.fwd)[1], !.rdata = Head(p.fwd)[2],
                   !.rindex = 1, !.fwd = Tail(p.fwd), !.rpc = "send"]
    ELSE [p EXCEPT !.rold = 0, !.rpc = "ready"]

\* a sync that on Err puts the old buffer back and starts it over
ReaderRecv_OldBufferKept(p) ==
    IF Len(p.fwd) > 0
    THEN [p EXCEPT !.rbuf = Head(p.fwd)[1], !.rdata = Head(p.fwd)[2],
                   !.rindex = 0, !.fwd = Tail(p.fwd), !.rpc = "send"]
    ELSE [p EXCEPT !.rbuf = p.rold, !.rindex = 0, !.rold = 0, !.rpc = "ready"]

\* sync: on Ok set the new buffer, its length and index 0; on Err the old
\* buffer is dropped and self.buffer stays None
ReaderRecv(p) ==
    IF ReaderRecvOk(p)
    THEN [p EXCEPT !.rbuf = Head(p.fwd)[1], !.rdata = Head(p.fwd)[2],
                   !.rindex = 0, !.fwd = Tail(p.fwd), !.rpc = "send"]
    ELSE [p EXCEPT !.rold = 0, !.rpc = "ready"]

\* sync: self.sender.send(old_buffer) returns when the receiver is gone or
\* the channel has room; its error is ignored
ReaderSendEnabled(p) == p.rpc = "send" /\ (~p.walive \/ Len(p.back) < 1)

ReaderSend(p) ==
    [p EXCEPT !.back = IF p.walive THEN Append(p.back, p.rold) ELSE p.back,
              !.rold = 0, !.rpc = "ready"]

\* the elements read / consume can deliver: buffer[index..length]
ReaderAvailable(p) ==
    IF p.rbuf = 0 THEN <<>> ELSE SubSeq(p.rdata, p.rindex + 1, Len(p.rdata))

\* read: self.index += 1; consume: self.index += consumed_length
ReaderAdvance(p, k) == [p EXCEPT !.rindex = p.rindex + k]

\* the PipedReader is dropped: its buffer, its receiver and its sender go
ReaderDrop(p) ==
    [p EXCEPT !.ralive = FALSE, !.rbuf = 0, !.rold = 0, !.fwd = <<>>,
              !.rpc = "ready"]


\* ------------------------------------------------------------------------
\* codec: the stages.  A stage is taken together with its two pipes as a
\* record [s, up, down]: s the stage's own state, up the pipe it reads, down
\* the pipe it writes.  s.st is "run", or "ok" / "err" once its function has
\* returned.  A stage runs on its own up to its next operation on a channel
\* (a send, a recv, or the drop of an end), which other stages can see;
\* XStep is one step of that run, XBlocked tells where it ends.
\*   s.closing: "no"; "reader" the reader is about to be closed (dropped);
\*   "final" BitEncoder::close is about to write its byte; "close" the
\*   writer is about to be closed; "writer" PipedWriter::close is in sync
\* ------------------------------------------------------------------------

\* the decoder is followed up to this many written bytes (more than any
\* input given to encode has)
MaxWritten == 24

\* stands for the pipe a stage does not have
NoPipe == NewPipe(1)

\* the stage waits for a channel, has returned, or is about to drop its reader
StageBlocked(c) ==
    \/ c.s.st # "run"
    \/ c.up.rpc # "ready"
    \/ c.down.wpc # "ready"
    \/ c.s.closing = "reader"

\* PipedWriter::close at the end of a stage: sync, or done at once
StageCloseWriter(c) ==
    IF WriterCloseSyncs(c.down)
    THEN [c EXCEPT !.down.wpc = "send", !.s.closing = "writer"]
    ELSE [c EXCEPT !.s.st = "ok"]

\* a call of the stage returns Err(error) and "?" returns it from the stage
StageErr(c, error) == [c EXCEPT !.s.st = "err", !.s.err = error]

\* PipedWriter::write(value)?
StageWrite(c, value) ==
    IF c.down.wbuf = 0
    THEN StageErr(c, "Broken pipe!")
    ELSE [c EXCEPT !.down = WriterPut(c.down, <<value>>)]

\* run_file_reader after a sync: the close has returned
FileReaderStep(c) == [c EXCEPT !.s.st = "ok"]

\* run_primary_context_encoder
PrimaryEncoderNew ==
    [st |-> "run", err |-> "none", closing |-> "no", context |-> PrimaryContextNew,
     outbox |-> <<>>, eof |-> FALSE, log |-> <<>>, sent |-> <<>>]

PrimaryEncoderStep(c) ==
    IF c.s.outbox # <<>>
    THEN IF c.down.wbuf = 0 THEN StageErr(c, "Broken pipe!")
         ELSE [StageWrite(c, Head(c.s.outbox))
                   EXCEPT !.s.outbox = Tail(c.s.outbox),
                          !.s.sent = Append(c.s.sent, Head(c.s.outbox))]
    ELSE IF c.s.closing = "close" THEN StageCloseWriter(c)
    ELSE IF c.s.closing = "writer" THEN [c EXCEPT !.s.st = "ok"]
    ELSE IF c.s.eof THEN [c EXCEPT !.s.closing = "reader"]
    ELSE IF ReaderNeedsSync(c.up) THEN [c EXCEPT !.up = ReaderTake(c.up)]
    ELSE IF c.up.rbuf = 0
    THEN LET info == EncoderInfo(c.s.context)
         IN  [c EXCEPT !.s.eof = TRUE,
                       !.s.outbox = EofMessages(info),
                       !.s.log = Append(c.s.log,
                           [kind |-> "eof", byte |-> info.first_byte,
                            matched |-> "NONE", info |-> info,
                            messages |-> EofMessages(info)])]
    ELSE LET current_byte == c.up.rdata[c.up.rindex + 1]
             matched == PrimaryContextMatching(c.s.context, current_byte)
             info == EncoderInfo(c.s.context)
         IN  [c EXCEPT !.up = ReaderAdvance(c.up, 1),
                       !.s.context = PrimaryContextMatched(c.s.context, current_byte, matched),
                       !.s.outbox = ByteMessages(info, matched, current_byte),
                       !.s.log = Append(c.s.log,
                           [kind |-> "byte", byte |-> current_byte,
                            matched |-> matched, info |-> info,
                            messages |-> ByteMessages(info, matched, current_byte)])]

\* run_secondary_context_encoder / SecondaryContextEncoder::encode
SecondaryEncoderNew ==
    [st |-> "run", err |-> "none", closing |-> "no", context |-> SecondaryContextNew,
     encoder |-> BitEncoderNew, todo |-> <<>>, events |-> <<>>]

SecondaryEncoderStep(c) ==
    IF c.s.closing = "close" THEN StageCloseWriter(c)
    ELSE IF c.s.closing = "writer" THEN [c EXCEPT !.s.st = "ok"]
    ELSE IF c.s.closing = "final"
    THEN [StageWrite(c, EncoderShiftByte(c.s.encoder)) EXCEPT !.s.closing = "close"]
    ELSE IF NeedShift(c.s.encoder)
    THEN [StageWrite(c, EncoderShiftByte(c.s.encoder))
              EXCEPT !.s.encoder = EncoderShift(c.s.encoder)]
    ELSE IF c.s.todo # <<>>
    THEN LET context_index == Head(c.s.todo)[1]
             bit == Head(c.s.todo)[2]
             prediction == SecondaryContextUpdated(c.s.context, context_index, bit)
         IN  [c EXCEPT !.s.context = SecondaryContextUpdate(c.s.context, context_index, bit),
                       !.s.encoder = EncoderSplit(c.s.encoder, prediction, bit),
                       !.s.todo = Tail(c.s.todo),
                       !.s.events = Append(c.s.events, Head(c.s.todo))]
    ELSE IF ReaderNeedsSync(c.up) THEN [c EXCEPT !.up = ReaderTake(c.up)]
    ELSE IF c.up.rbuf = 0 THEN [c EXCEPT !.s.closing = "reader"]
    ELSE [c EXCEPT !.up = ReaderAdvance(c.up, 1),
                   !.s.todo = MessageEvents(c.up.rdata[c.up.rindex + 1])]

\* run_file_writer: consume hands buffer[index..length] to write_all
FileWriterStep(c) ==
    IF ReaderNeedsSync(c.up) THEN [c EXCEPT !.up = ReaderTake(c.up)]
    ELSE IF c.up.rbuf = 0 THEN [c EXCEPT !.s.closing = "reader"]
    ELSE [c EXCEPT !.s.file = c.s.file \o ReaderAvailable(c.up),
                   !.up = ReaderAdvance(c.up, Len(ReaderAvailable(c.up)))]

\* where the decoder was when it shifted in its fourth 0xFF for a missing
\* byte: the bits decoded and the bytes written so far, and the node whose bit
\* it was about to decode
DecoderMark(events, node, written) ==
    [events |-> Len(events), node |-> node, written |-> Len(written)]

\* run_combined_context_decoder / CombinedContextDecoder
\*   node: where decode is in its match: "first", "second", "third", or in
\*   byte(): "high", "low" with the values of high and low so far
\*   past: the number of 0xFF bytes shifted in for missing bytes
CombinedDecoderNew ==
    [st |-> "run", err |-> "none", closing |-> "no",
     primary_context |-> PrimaryContextNew,
     secondary_context |-> SecondaryContextNew, decoder |-> BitDecoderNew,
     node |-> "first", high |-> 1, low |-> 1, nread |-> 0, written |-> <<>>,
     events |-> <<>>, past |-> 0, mark |-> DecoderMark(<<>>, "first", <<>>)]

\* the second bit looked up under the third context
DecoderContextIndex_SecondUnderThird(s) ==
    LET info == ContextInfo(s.primary_context)
    IN  CASE s.node = "first" -> FirstContext(info)
          [] s.node = "second" -> ThirdContext(info)
          [] s.node = "third" -> ThirdContext(info)
          [] s.node = "high" -> info.literal_context + s.high
          [] OTHER -> info.literal_context + 15 * (s.high - 15) + s.low

\* the context index of the next bit
DecoderContextIndex(s) ==
    LET info == ContextInfo(s.primary_context)
    IN  CASE s.node = "first" -> FirstContext(info)
          [] s.node = "second" -> SecondContext(info)
          [] s.node = "third" -> ThirdContext(info)
          [] s.node = "high" -> info.literal_context + s.high
          [] OTHER -> info.literal_context + 15 * (s.high - 15) + s.low

\* decode: self.writer.write(next_byte)?; self.primary_context.matched(..)
DecoderEmit(c, next_byte, matched) ==
    IF c.down.wbuf = 0 THEN StageErr(c, "Broken pipe!")
    ELSE
    [StageWrite(c, next_byte)
        EXCEPT !.s.primary_context =
                   PrimaryContextMatched(c.s.primary_context, next_byte, matched),
               !.s.written = Append(c.s.written, next_byte),
               !.s.node = "first"]

\* decode: what follows a decoded bit
DecoderAfterBit(c, bit) ==
    LET info == ContextInfo(c.s.primary_context)
    IN  CASE c.s.node = "first" ->
                 IF bit = 0 THEN DecoderEmit(c, info.first_byte, "FIRST")
                 ELSE [c EXCEPT !.s.node = "second"]
          [] c.s.node = "second" ->
                 IF bit = 0 THEN [c EXCEPT !.s.node = "high", !.s.high = 1]
                 ELSE [c EXCEPT !.s.node = "third"]
          [] c.s.node = "third" ->
                 IF bit = 0 THEN DecoderEmit(c, info.second_byte, "SECOND")
                 ELSE DecoderEmit(c, info.third_byte, "THIRD")
          [] c.s.node = "high" ->
                 IF 2 * c.s.high + bit >= 16
                 THEN [c EXCEPT !.s.high = 2 * c.s.high + bit, !.s.node = "low", !.s.low = 1]
                 ELSE [c EXCEPT !.s.high = 2 * c.s.high + bit]
          [] OTHER ->
                 IF 2 * c.s.low + bit >= 16
                 THEN LET next_byte == (c.s.high - 16) * 16 + (2 * c.s.low + bit - 16)
                      IN  IF next_byte = info.first_byte
                          THEN [c EXCEPT !.s.closing = "reader", !.s.low = 2 * c.s.low + bit]
                          ELSE DecoderEmit(c, next_byte, "NONE")
                 ELSE [c EXCEPT !.s.low = 2 * c.s.low + bit]

CombinedDecoderStep(c) ==
    IF c.s.closing = "close" THEN StageCloseWriter(c)
    ELSE IF c.s.closing = "writer" THEN [c EXCEPT !.s.st = "ok"]
    ELSE IF NeedShift(c.s.decoder)
    THEN IF ReaderNeedsSync(c.up) THEN [c EXCEPT !.up = ReaderTake(c.up)]
         ELSE IF c.up.rbuf = 0
         THEN [c EXCEPT !.s.decoder = DecoderShift(c.s.decoder, 255),
                        !.s.nread = c.s.nread + 1,
                        !.s.past = c.s.past + 1,
                        !.s.mark = IF c.s.past = 3
                                   THEN DecoderMark(c.s.events, c.s.node, c.s.written)
                                   ELSE c.s.mark]
         ELSE [c EXCEPT !.s.decoder = DecoderShift(c.s.decoder, c.up.rdata[c.up.rindex + 1]),
                        !.s.nread = c.s.nread + 1,
                        !.up = ReaderAdvance(c.up, 1)]
    ELSE LET context_index == DecoderContextIndex(c.s)
             prediction == DecoderPrediction(c.s.secondary_context, context_index)
             bit == DecoderBit(c.s.decoder, prediction)
         IN  DecoderAfterBit(
                 [c EXCEPT !.s.decoder = DecoderSplit(c.s.decoder, prediction),
                           !.s.secondary_context =
                               SecondaryContextUpdate(c.s.secondary_context, context_index, bit),
                           !.s.events = Append(c.s.events, <<context_index, bit>>)],
                 bit)

\* one step of the stage named x
StageStep(x, c) ==
    CASE x = "file_reader" -> FileReaderStep(c)
      [] x = "primary_context_encoder" -> PrimaryEncoderStep(c)
      [] x = "secondary_context_encoder" -> SecondaryEncoderStep(c)
      [] x = "file_writer" -> FileWriterStep(c)
      [] OTHER -> CombinedDecoderStep(c)

\* the stage cannot go on by itself: it waits, has returned, or (the file
\* reader) is about to read the file
StageStops(x, c) ==
    \/ StageBlocked(c)
    \/ x = "file_reader" /\ c.s.closing # "writer"
    \/ x = "combined_context_decoder" /\ Len(c.s.written) >= MaxWritten

\* at most 2^n steps of the stage.  (A value bound by \in is computed once,
\* before the recursion goes on.)
RECURSIVE StageRunFor(_, _, _)
StageRunFor(x, c, n) ==
    IF StageStops(x, c) THEN c
    ELSE IF n = 0 THEN StageStep(x, c)
    ELSE CHOOSE result \in
             {StageRunFor(x, half, n - 1) : half \in {StageRunFor(x, c, n - 1)}} : TRUE

RECURSIVE StageRunFrom(_, _, _)
StageRunFrom(x, c, n) ==
    IF StageStops(x, c) THEN c
    ELSE CHOOSE result \in
             {StageRunFrom(x, next, n + 1) : next \in {StageRunFor(x, c, n)}} : TRUE

\* the stage runs up to its next channel operation
StageRun(x, c) == StageRunFrom(x, c, 0)

\* reader.close(): what the stage goes on with when its reader is dropped
AfterCloseReader(x, c) ==
    CASE x = "primary_context_encoder" -> [c EXCEPT !.s.closing = "close"]
      [] x = "secondary_context_encoder" -> [c EXCEPT !.s.closing = "final"]
      [] x = "file_writer" -> [c EXCEPT !.s.closing = "no", !.s.st = "ok"]
      [] OTHER -> [c EXCEPT !.s.closing = "close"]

\* ------------------------------------------------------------------------
\* The encoder as a function of its input: what one thread running the three
\* loops of codec/encoder.rs one after the other computes
\* ------------------------------------------------------------------------

\* SecondaryContextEncoder::encode: the <<context, bit>> pairs of messages[i..]
RECURSIVE EventsFrom(_, _)
EventsFrom(messages, i) ==
    IF i > Len(messages) THEN <<>>
    ELSE MessageEvents(messages[i]) \o EventsFrom(messages, i + 1)

\* BitEncoder::bit: the loop "shift bits out"
RECURSIVE ShiftOut(_, _)
ShiftOut(encoder, out) ==
    IF NeedShift(encoder)
    THEN ShiftOut(EncoderShift(encoder), Append(out, EncoderShiftByte(encoder)))
    ELSE [encoder |-> encoder, out |-> out]

\* SecondaryContextEncoder::bit: one <<context, bit>> pair through the table
\* and the range coder
CodeEvent(coder, event) ==
    LET prediction == SecondaryContextUpdated(coder.context, event[1], event[2])
        shifted == ShiftOut(EncoderSplit(coder.encoder, prediction, event[2]), coder.out)
    IN  [context |-> SecondaryContextUpdate(coder.context, event[1], event[2]),
         encoder |-> shifted.encoder,
         out |-> shifted.out]

\* SecondaryContextEncoder::bit for events[i..].  (A value bound by \in is
\* computed once, before the recursion goes on.)
RECURSIVE CodeFrom(_, _, _)
CodeFrom(coder, events, i) ==
    IF i > Len(events) THEN coder
    ELSE CHOOSE result \in
             {CodeFrom(next, events, i + 1) : next \in {CodeEvent(coder, events[i])}} :
             TRUE

\* the three loops before any byte
SequentialNew ==
    [pc |-> PrimaryContextNew,
     coder |-> [context |-> SecondaryContextNew, encoder |-> BitEncoderNew, out |-> <<>>],
     messages |-> <<>>, events |-> <<>>]

\* one byte through run_primary_context_encoder's Some arm, then through
\* SecondaryContextEncoder::encode
SequentialByte(state, current_byte) ==
    LET matched == PrimaryContextMatching(state.pc, current_byte)
        messages == ByteMessages(EncoderInfo(state.pc), matched, current_byte)
        events == EventsFrom(messages, 1)
    IN  [pc |-> PrimaryContextMatched(state.pc, current_byte, matched),
         coder |-> CodeFrom(state.coder, events, 1),
         messages |-> state.messages \o messages,
         events |-> state.events \o events]

\* the bytes s[lo..hi] in order; the range is walked by halves, the state
\* after the first half being the state before the second
RECURSIVE SequentialRange(_, _, _, _)
SequentialRange(state, s, lo, hi) ==
    IF lo > hi THEN state
    ELSE IF lo = hi THEN SequentialByte(state, s[lo])
    ELSE CHOOSE result \in
             {SequentialRange(half, s, ((lo + hi) \div 2) + 1, hi) :
                  half \in {SequentialRange(state, s, lo, (lo + hi) \div 2)}} : TRUE

\* the None arm, and BitEncoder::close
SequentialEnd(state) ==
    LET messages == EofMessages(EncoderInfo(state.pc))
        events == EventsFrom(messages, 1)
        coder == CodeFrom(state.coder, events, 1)
    IN  [messages |-> state.messages \o messages,
         events |-> state.events \o events,
         output |-> Append(coder.out, EncoderShiftByte(coder.encoder))]

\* the messages, the events at the range coder and the bytes written, for
\* input s
EncodeSequentially(s) ==
    CHOOSE result \in
        {SequentialEnd(body) : body \in {SequentialRange(SequentialNew, s, 1, Len(s))}} :
        TRUE

\* ------------------------------------------------------------------------
\* State
\* ------------------------------------------------------------------------

VARIABLES
    \* the range coder on its own (encoder, then decoder of its output,
    \* or decoder of arbitrary bytes)
    cphase,     \* "off", "enc", "dec", "fuzz"
    enc,        \* BitEncoder: low, high
    dec,        \* BitDecoder: value, low, high
    coded,      \* the <<prediction, bit>> pairs given to BitEncoder::bit
    stream,     \* the bytes the encoder wrote
    dpos,       \* number of bytes the decoder has read (or tried to)
    decoded,    \* the bits BitDecoder::bit returned
    clast,      \* the coder's last step: "new", "split", "shift", "close"
    csplit,     \* low, high and prediction at the last split; at: bytes shifted before it
    \* one pipe between a writing and a reading stage
    pipe,       \* the pipe (see NewPipe)
    given,      \* the elements given to PipedWriter::write / produce, in order
    taken,      \* the elements PipedReader::read / consume returned, in order
    wclient,    \* the writing stage: "run", "closed", "failed"
    rclient,    \* the reading stage: "run", "eof", "dropped"
    wcall,      \* the writing stage's current or last call on the pipe
    handed,     \* the elements of the buffers the writer's send handed over
    \* the codec: encode(input), then decode of what encode wrote
    input,      \* the bytes of the file given to encode
    sizes,      \* io: IO_BUFFER_SIZE, message: MESSAGE_BUFFER_SIZE
    phase,      \* "off", "encode", "encode_failed", "decode", "decode_failed", "done"
    stages,     \* stage name -> the stage's thread: st is "new", "run", "ok", "err"
    pipes,      \* pipe name -> the pipe between two stages
    compressed, \* the file encode wrote, once encode has returned Ok
    expected,   \* EncodeSequentially(input)
    fault,      \* the failure from outside: how many may still happen, and
                \* the stage and kind ("io", "panic") of the one that did
    outcome,    \* what encode / decode returned, see JoinOutcome
    \* one run of the command line program (main.rs)
    run,        \* see RunNew
    \* the generators of the two state tables (the test.rs files)
    history_table,  \* primary_context/history/test.rs, see HistoryTableNew
    state_table,    \* secondary_context/state/test.rs, see StateTableNew
    \* one slot of the primary context table under arbitrary bytes
    slot,           \* see SlotNew
    \* one call of a function of the codec on arbitrary arguments
    probe           \* the function, its arguments and what it returned

coderVars == <<cphase, enc, dec, coded, stream, dpos, decoded, clast, csplit>>

pipeVars == <<pipe, given, taken, wclient, rclient, wcall, handed>>

codecVars ==
    <<input, sizes, phase, stages, pipes, compressed, expected, fault, outcome>>

runVars == <<run>>

tableVars == <<history_table, state_table>>

unitVars == <<slot, probe>>

vars == <<coderVars, pipeVars, codecVars, runVars, tableVars, unitVars>>

\* ------------------------------------------------------------------------
\* Each specification below moves one group of variables; the other groups
\* keep the values given here.
\* ------------------------------------------------------------------------

CoderOff ==
    /\ cphase = "off"
    /\ enc = BitEncoderNew
    /\ dec = BitDecoderNew
    /\ coded = <<>>
    /\ stream = <<>>
    /\ dpos = 0
    /\ decoded = <<>>
    /\ clast = "new"
    /\ csplit = [low |-> U32Zero, high |-> U32Max, prediction |-> U32Zero, at |-> 0]

\* no failure from outside so far, and at most budget to come
NoFault(budget) == [budget |-> budget, stage |-> "none", kind |-> "none"]

\* no call of the writing stage yet
NoCall == [op |-> "none", afterDrop |-> FALSE, broken |-> FALSE,
           index |-> 0, synced |-> FALSE, result |-> "none"]

PipeOff ==
    /\ pipe = NewPipe(1)
    /\ given = <<>>
    /\ taken = <<>>
    /\ wclient = "off"
    /\ rclient = "off"
    /\ wcall = NoCall
    /\ handed = <<>>

CodecOff ==
    /\ input = <<>>
    /\ sizes = [io |-> 1, message |-> 1]
    /\ phase = "off"
    /\ stages = <<>>
    /\ pipes = <<>>
    /\ compressed = <<>>
    /\ expected = <<>>
    /\ fault = NoFault(0)
    /\ outcome = "none"

RunOff == run = [pc |-> "off"]

TableOff ==
    /\ history_table = [pc |-> "off"]
    /\ state_table = [pc |-> "off"]

UnitOff ==
    /\ slot = [pc |-> "off"]
    /\ probe = [pc |-> "off"]


\* ------------------------------------------------------------------------
\* One pipe between two stages: the writing stage writes 1, 2, 3, ... by
\* write or produce and closes; the reading stage reads by read or consume;
\* either stage can fail and drop its end between two calls.
\* ------------------------------------------------------------------------

\* the largest SIZE of a buffer tried
MaxSize == 2

\* the number of elements the writing stage has to write
MaxItems == 4

\* a call of the writing stage begins: was the reader dropped, was the
\* writer's buffer None, what was its index
BeginCall(op) ==
    [op |-> op, afterDrop |-> ~pipe.ralive, broken |-> pipe.wbuf = 0,
     index |-> Len(pipe.wdata), synced |-> FALSE, result |-> "pending"]

PipeInit ==
    /\ \E size \in 1..MaxSize : pipe = NewPipe(size)
    /\ given = <<>>
    /\ taken = <<>>
    /\ wclient = "run"
    /\ rclient = "run"
    /\ wcall = NoCall
    /\ handed = <<>>

\* the elements first + 1 .. first + k
Items(first, k) == [i \in 1..k |-> first + i]

\* a call of the writing stage returns.  On an error the stage fails and
\* drops its writer (every stage of the codec passes the error on with "?");
\* after a successful close the writer is dropped as well
WriterReturns(p, call, ok) ==
    /\ wcall' = [call EXCEPT !.result = IF ok THEN "ok" ELSE "err"]
    /\ IF ~ok
       THEN wclient' = "failed" /\ pipe' = WriterDrop(p)
       ELSE IF call.op = "close"
            THEN wclient' = "closed" /\ pipe' = WriterDrop(p)
            ELSE wclient' = "run" /\ pipe' = p

\* PipedWriter::write(value)
PipeWrite ==
    /\ wclient = "run" /\ pipe.wpc = "ready"
    /\ Len(given) < MaxItems
    /\ given' = Append(given, Len(given) + 1)
    /\ IF pipe.wbuf = 0
       THEN WriterReturns(pipe, BeginCall("write"), FALSE)
       ELSE LET p == WriterPut(pipe, <<Len(given) + 1>>)
            IN  IF p.wpc = "send"
                THEN /\ pipe' = p
                     /\ wcall' = [BeginCall("write") EXCEPT !.synced = TRUE]
                     /\ UNCHANGED wclient
                ELSE WriterReturns(p, BeginCall("write"), TRUE)
    /\ UNCHANGED <<taken, rclient>>
    /\ UNCHANGED handed
    /\ UNCHANGED <<coderVars, codecVars, runVars, tableVars, unitVars>>

\* PipedWriter::produce(producer): the producer fills k elements of
\* buffer[index..], k = 0 included
PipeProduce ==
    /\ wclient = "run" /\ pipe.wpc = "ready"
    /\ IF pipe.wbuf = 0
       THEN /\ WriterReturns(pipe, BeginCall("produce"), FALSE)
            /\ UNCHANGED given
       ELSE \E k \in 0..(pipe.size - Len(pipe.wdata)) :
                /\ Len(given) + k <= MaxItems
                /\ given' = given \o Items(Len(given), k)
                /\ LET p == WriterPut(pipe, Items(Len(given), k))
                   IN  IF p.wpc = "send"
                       THEN /\ pipe' = p
                            /\ wcall' = [BeginCall("produce") EXCEPT !.synced = TRUE]
                            /\ UNCHANGED wclient
                       ELSE WriterReturns(p, BeginCall("produce"), TRUE)
    /\ UNCHANGED <<taken, rclient>>
    /\ UNCHANGED handed
    /\ UNCHANGED <<coderVars, codecVars, runVars, tableVars, unitVars>>

\* PipedWriter::close
PipeWriterClose ==
    /\ wclient = "run" /\ pipe.wpc = "ready"
    /\ IF WriterCloseSyncs(pipe)
       THEN /\ pipe' = [pipe EXCEPT !.wpc = "send"]
            /\ wcall' = [BeginCall("close") EXCEPT !.synced = TRUE]
            /\ UNCHANGED wclient
       ELSE WriterReturns(pipe, BeginCall("close"), TRUE)
    /\ UNCHANGED <<given, taken, rclient>>
    /\ UNCHANGED handed
    /\ UNCHANGED <<coderVars, codecVars, runVars, tableVars, unitVars>>

\* PipedWriter::sync: send((buffer, index))?
PipeWriterSend ==
    /\ wclient = "run"
    /\ WriterSendEnabled(pipe)
    /\ IF WriterSendOk(pipe)
       THEN pipe' = WriterSend(pipe) /\ UNCHANGED <<wclient, wcall>>
       ELSE WriterReturns(WriterSend(pipe), wcall, FALSE)
    /\ UNCHANGED <<given, taken, rclient>>
    /\ handed' = IF WriterSendOk(pipe) THEN handed \o pipe.wdata ELSE handed
    /\ UNCHANGED <<coderVars, codecVars, runVars, tableVars, unitVars>>

\* PipedWriter::sync: buffer = Some(recv()?); index = 0
PipeWriterRecv ==
    /\ wclient = "run"
    /\ WriterRecvEnabled(pipe)
    /\ WriterReturns(WriterRecv(pipe), wcall, WriterRecvOk(pipe))
    /\ UNCHANGED <<given, taken, rclient>>
    /\ UNCHANGED handed
    /\ UNCHANGED <<coderVars, codecVars, runVars, tableVars, unitVars>>

\* the writing stage fails on its own between two calls (its producer or
\* its input returned an error) and drops the writer
PipeWriterFail ==
    /\ wclient = "run" /\ pipe.wpc = "ready"
    /\ wclient' = "failed"
    /\ pipe' = WriterDrop(pipe)
    /\ UNCHANGED <<given, taken, rclient, wcall>>
    /\ UNCHANGED handed
    /\ UNCHANGED <<coderVars, codecVars, runVars, tableVars, unitVars>>

\* PipedReader::read / consume, first half: sync takes the old buffer when
\* the current one is used up
PipeReaderSync ==
    /\ rclient = "run" /\ pipe.rpc = "ready"
    /\ ReaderNeedsSync(pipe)
    /\ pipe' = ReaderTake(pipe)
    /\ UNCHANGED <<given, taken, wclient, rclient, wcall>>
    /\ UNCHANGED handed
    /\ UNCHANGED <<coderVars, codecVars, runVars, tableVars, unitVars>>

\* PipedReader::sync: match self.receiver.recv()
PipeReaderRecv ==
    /\ rclient = "run"
    /\ ReaderRecvEnabled(pipe)
    /\ pipe' = ReaderRecv(pipe)
    /\ UNCHANGED <<given, taken, wclient, rclient, wcall>>
    /\ UNCHANGED handed
    /\ UNCHANGED <<coderVars, codecVars, runVars, tableVars, unitVars>>

\* PipedReader::sync: let _ = self.sender.send(old_buffer)
PipeReaderSend ==
    /\ rclient = "run"
    /\ ReaderSendEnabled(pipe)
    /\ pipe' = ReaderSend(pipe)
    /\ UNCHANGED <<given, taken, wclient, rclient, wcall>>
    /\ UNCHANGED handed
    /\ UNCHANGED <<coderVars, codecVars, runVars, tableVars, unitVars>>

\* PipedReader::read (k = 1) / consume (the consumer takes k elements),
\* second half: the elements buffer[index..index + k]
PipeRead ==
    /\ rclient = "run" /\ pipe.rpc = "ready"
    /\ ~ReaderNeedsSync(pipe)
    /\ pipe.rbuf # 0
    /\ \E k \in 1..Len(ReaderAvailable(pipe)) :
        /\ taken' = taken \o SubSeq(ReaderAvailable(pipe), 1, k)
        /\ pipe' = ReaderAdvance(pipe, k)
    /\ UNCHANGED <<given, wclient, rclient, wcall>>
    /\ UNCHANGED handed
    /\ UNCHANGED <<coderVars, codecVars, runVars, tableVars, unitVars>>

\* PipedReader::read returns None, consume returns 0: the buffer is None
PipeReadEnd ==
    /\ rclient \in {"run", "eof"} /\ pipe.rpc = "ready"
    /\ pipe.rbuf = 0
    /\ rclient' = "eof"
    /\ UNCHANGED <<pipe, given, taken, wclient, wcall>>
    /\ UNCHANGED handed
    /\ UNCHANGED <<coderVars, codecVars, runVars, tableVars, unitVars>>

\* the reading stage ends or fails between two calls and drops the reader
PipeReaderDrop ==
    /\ rclient \in {"run", "eof"} /\ pipe.rpc = "ready"
    /\ rclient' = "dropped"
    /\ pipe' = ReaderDrop(pipe)
    /\ UNCHANGED <<given, taken, wclient, wcall>>
    /\ UNCHANGED handed
    /\ UNCHANGED <<coderVars, codecVars, runVars, tableVars, unitVars>>

PipeNext ==
    \/ PipeWrite
    \/ PipeProduce
    \/ PipeWriterClose
    \/ PipeWriterSend
    \/ PipeWriterRecv
    \/ PipeWriterFail
    \/ PipeReaderSync
    \/ PipeReaderRecv
    \/ PipeReaderSend
    \/ PipeRead
    \/ PipeReadEnd
    \/ PipeReaderDrop

\* the state after pipe(), the two stages about to start
PipeSpecInit == PipeInit /\ CoderOff /\ CodecOff /\ RunOff /\ TableOff /\ UnitOff

SpecPipe == PipeSpecInit /\ [][PipeNext]_vars

\* ------------------------------------------------------------------------
\* The range coder alone: arbitrary bits under arbitrary probabilities
\* ------------------------------------------------------------------------

\* number of bits coded in one run
MaxBits == 3

\* the 32-bit probabilities tried: the extremes, one half, the largest and
\* the smallest non-zero value BitPrediction::get can return
ProbSet ==
    {U32Zero, <<0, 0, 1, 0>>, <<128, 0, 0, 0>>, <<255, 255, 255, 0>>, U32Max}

\* the bytes given to a decoder that reads arbitrary input
FuzzBytes == {0, 128, 255}

CoderInit ==
    /\ cphase \in {"enc", "fuzz"}
    /\ enc = BitEncoderNew
    /\ dec = BitDecoderNew
    /\ coded = <<>>
    /\ stream = <<>>
    /\ dpos = 0
    /\ decoded = <<>>
    /\ clast = "new"
    /\ csplit = [low |-> U32Zero, high |-> U32Max, prediction |-> U32Zero, at |-> 0]

\* BitEncoder::bit: the split and the assignment
CoderEncodeBit ==
    /\ cphase = "enc"
    /\ ~NeedShift(enc)
    /\ Len(coded) < MaxBits
    /\ \E prediction \in ProbSet, bit \in {0, 1} :
        /\ enc' = EncoderSplit(enc, prediction, bit)
        /\ coded' = Append(coded, <<prediction, bit>>)
        /\ csplit' = [low |-> enc.low, high |-> enc.high, prediction |-> prediction,
                      at |-> Len(stream)]
    /\ clast' = "split"
    /\ UNCHANGED <<cphase, dec, stream, dpos, decoded>>
    /\ UNCHANGED <<pipeVars, codecVars, runVars, tableVars, unitVars>>

\* BitEncoder::bit: one iteration of "shift bits out"
CoderEncodeShift ==
    /\ cphase = "enc"
    /\ NeedShift(enc)
    /\ stream' = Append(stream, EncoderShiftByte(enc))
    /\ enc' = EncoderShift(enc)
    /\ clast' = "shift"
    /\ UNCHANGED <<cphase, dec, coded, dpos, decoded, csplit>>
    /\ UNCHANGED <<pipeVars, codecVars, runVars, tableVars, unitVars>>

\* BitEncoder::close: one final byte low >> 24
CoderEncodeClose ==
    /\ cphase = "enc"
    /\ ~NeedShift(enc)
    /\ stream' = Append(stream, EncoderShiftByte(enc))
    /\ cphase' = "dec"
    /\ clast' = "close"
    /\ UNCHANGED <<enc, dec, coded, dpos, decoded, csplit>>
    /\ UNCHANGED <<pipeVars, codecVars, runVars, tableVars, unitVars>>

\* BitDecoder::bit: one iteration of "shift bits in"; 0xFF past the end
CoderDecodeShift ==
    /\ cphase = "dec"
    /\ NeedShift(dec)
    /\ Len(decoded) < Len(coded)
    /\ dec' = DecoderShift(dec, IF dpos < Len(stream) THEN stream[dpos + 1] ELSE 255)
    /\ dpos' = dpos + 1
    /\ clast' = "shift"
    /\ UNCHANGED <<cphase, enc, coded, stream, decoded, csplit>>
    /\ UNCHANGED <<pipeVars, codecVars, runVars, tableVars, unitVars>>

\* BitDecoder::bit after the loop, under the probability the encoder had
CoderDecodeBit ==
    /\ cphase = "dec"
    /\ ~NeedShift(dec)
    /\ Len(decoded) < Len(coded)
    /\ LET prediction == coded[Len(decoded) + 1][1]
       IN  /\ decoded' = Append(decoded, DecoderBit(dec, prediction))
           /\ dec' = DecoderSplit(dec, prediction)
           /\ csplit' = [low |-> dec.low, high |-> dec.high, prediction |-> prediction,
                      at |-> dpos]
    /\ clast' = "split"
    /\ UNCHANGED <<cphase, enc, coded, stream, dpos>>
    /\ UNCHANGED <<pipeVars, codecVars, runVars, tableVars, unitVars>>

\* a decoder on arbitrary input: any byte, any probability
CoderFuzzShift ==
    /\ cphase = "fuzz"
    /\ NeedShift(dec)
    /\ Len(decoded) < MaxBits
    /\ \E byte \in FuzzBytes : dec' = DecoderShift(dec, byte)
    /\ dpos' = dpos + 1
    /\ clast' = "shift"
    /\ UNCHANGED <<cphase, enc, coded, stream, decoded, csplit>>
    /\ UNCHANGED <<pipeVars, codecVars, runVars, tableVars, unitVars>>

CoderFuzzBit ==
    /\ cphase = "fuzz"
    /\ ~NeedShift(dec)
    /\ Len(decoded) < MaxBits
    /\ \E prediction \in ProbSet :
        /\ decoded' = Append(decoded, DecoderBit(dec, prediction))
        /\ dec' = DecoderSplit(dec, prediction)
        /\ csplit' = [low |-> dec.low, high |-> dec.high, prediction |-> prediction,
                      at |-> dpos]
    /\ clast' = "split"
    /\ UNCHANGED <<cphase, enc, coded, stream, dpos>>
    /\ UNCHANGED <<pipeVars, codecVars, runVars, tableVars, unitVars>>

CoderNext ==
    \/ CoderEncodeBit
    \/ CoderEncodeShift
    \/ CoderEncodeClose
    \/ CoderDecodeShift
    \/ CoderDecodeBit
    \/ CoderFuzzShift
    \/ CoderFuzzBit

\* a new encoder, or a new decoder on arbitrary input
CoderSpecInit == CoderInit /\ PipeOff /\ CodecOff /\ RunOff /\ TableOff /\ UnitOff

SpecCoder == CoderSpecInit /\ [][CoderNext]_vars


\* ------------------------------------------------------------------------
\* The codec: encode runs its four stages over three pipes; when it has
\* returned Ok, decode runs its three stages over two pipes on the file
\* encode wrote.  A step is one channel operation of one stage (a send, a
\* recv, the drop of an end), one read of the input file, or a join; what a
\* stage does between two such operations touches only its own state and
\* its own side of its pipes, and is part of the step.
\* ------------------------------------------------------------------------

MaxInputLen == 2

Alphabet == {0, 65, 66}

\* a first-rank match, a second-rank match, a third-rank match; an input
\* whose last coded bit leaves low = high, so that the encoder shifts out
\* four bytes after it
LongInputs ==
    {<<65, 65, 65, 65, 65, 65, 65>>,
     <<65, 65, 65, 65, 65, 66, 65, 65, 65, 65, 65, 65, 66>>,
     <<65, 65, 65, 65, 65, 67, 65, 65, 65, 65, 65, 66, 65, 65, 65, 65, 65, 65, 67>>,
     <<66, 65, 67, 66, 65, 65, 65, 66, 66, 65, 65, 65, 66, 66, 66, 66, 66, 65, 67, 67>>}

\* "AAAA" and "ABAB"
Scenarios == {<<65, 65, 65, 65>>, <<65, 66, 65, 66>>}

Inputs ==
    UNION {[1..n -> Alphabet] : n \in 0..MaxInputLen} \cup LongInputs \cup Scenarios

EncodeStageNames ==
    {"file_reader", "primary_context_encoder", "secondary_context_encoder", "file_writer"}

DecodeStageNames == {"file_reader", "combined_context_decoder", "file_writer"}

HasUp(x) == x # "file_reader"

HasDown(x) == x # "file_writer"

\* the pipe a stage reads from, the pipe it writes to
UpOf(x) ==
    CASE x = "primary_context_encoder" -> "input"
      [] x = "secondary_context_encoder" -> "message"
      [] x = "combined_context_decoder" -> "input"
      [] OTHER -> "output"

DownOf(x) ==
    CASE x = "file_reader" -> "input"
      [] x = "primary_context_encoder" -> "message"
      [] OTHER -> "output"

\* run_file_reader, run_file_writer as spawned
FileReaderNew(file) ==
    [st |-> "new", err |-> "none", closing |-> "no", file |-> file, pos |-> 0]

FileWriterNew == [st |-> "new", err |-> "none", closing |-> "no", file |-> <<>>]

\* encode: the three pipes and the four threads
EncodePipes(z) ==
    [q \in {"input", "message", "output"} |->
        IF q = "message" THEN NewPipe(z.message) ELSE NewPipe(z.io)]

EncodeStages(file) ==
    [x \in EncodeStageNames |->
        CASE x = "file_reader" -> FileReaderNew(file)
          [] x = "primary_context_encoder" -> [PrimaryEncoderNew EXCEPT !.st = "new"]
          [] x = "secondary_context_encoder" -> [SecondaryEncoderNew EXCEPT !.st = "new"]
          [] OTHER -> FileWriterNew]

\* decode: the two pipes and the three threads
DecodePipes(z) == [q \in {"input", "output"} |-> NewPipe(z.io)]

DecodeStages(file) ==
    [x \in DecodeStageNames |->
        CASE x = "file_reader" -> FileReaderNew(file)
          [] x = "combined_context_decoder" -> [CombinedDecoderNew EXCEPT !.st = "new"]
          [] OTHER -> FileWriterNew]

CodecInit ==
    /\ input \in Inputs
    /\ sizes \in [io : 1..MaxSize, message : 1..MaxSize]
    /\ phase = "encode"
    /\ stages = EncodeStages(input)
    /\ pipes = EncodePipes(sizes)
    /\ compressed = <<>>
    /\ expected = EncodeSequentially(input)
    /\ fault = NoFault(0)
    /\ outcome = "none"

\* a stage with the pipes it holds an end of
Ctx(x) ==
    [s |-> stages[x],
     up |-> IF HasUp(x) THEN pipes[UpOf(x)] ELSE NoPipe,
     down |-> IF HasDown(x) THEN pipes[DownOf(x)] ELSE NoPipe]

Commit(x, c) ==
    /\ stages' = [stages EXCEPT ![x] = c.s]
    /\ pipes' = [q \in DOMAIN pipes |->
                    IF HasUp(x) /\ q = UpOf(x) THEN c.up
                    ELSE IF HasDown(x) /\ q = DownOf(x) THEN c.down
                    ELSE pipes[q]]
    /\ UNCHANGED <<input, sizes, phase, compressed, expected, fault, outcome>>
    /\ UNCHANGED <<coderVars, pipeVars, runVars, tableVars, unitVars>>

Running == phase \in {"encode", "decode"}


\* the thread of stage x starts
StageStart(x) ==
    /\ Running /\ x \in DOMAIN stages
    /\ stages[x].st = "new"
    /\ Commit(x, StageRun(x, [Ctx(x) EXCEPT !.s.st = "run"]))

\* run_file_reader: one writer.produce(&mut reader); the file's read fills
\* some or all of buffer[index..SIZE]; when it returns 0, writer.close()
FileRead ==
    LET c == Ctx("file_reader")
        remaining == Len(c.s.file) - c.s.pos
        space == c.down.size - Len(c.down.wdata)
    IN  /\ Running
        /\ c.s.st = "run" /\ c.s.closing = "no" /\ c.down.wpc = "ready"
        /\ IF c.down.wbuf = 0
           THEN Commit("file_reader", StageErr(c, "Broken pipe!"))
           ELSE IF remaining = 0
           THEN Commit("file_reader", StageCloseWriter(c))
           ELSE \E k \in 1..Min(space, remaining) :
                    Commit("file_reader",
                           [c EXCEPT !.down = WriterPut(c.down,
                                         SubSeq(c.s.file, c.s.pos + 1, c.s.pos + k)),
                                     !.s.pos = c.s.pos + k])

\* PipedWriter::sync of stage x: the send
StageWriterSend(x) ==
    LET c == Ctx(x)
    IN  /\ Running /\ x \in DOMAIN stages /\ HasDown(x)
        /\ c.s.st = "run" /\ WriterSendEnabled(c.down)
        /\ IF WriterSendOk(c.down)
           THEN Commit(x, [c EXCEPT !.down = WriterSend(c.down)])
           ELSE Commit(x, StageErr([c EXCEPT !.down = WriterSend(c.down)],
                                   "sending on a closed channel"))

\* PipedWriter::sync of stage x: the recv
StageWriterRecv(x) ==
    LET c == Ctx(x)
    IN  /\ Running /\ x \in DOMAIN stages /\ HasDown(x)
        /\ c.s.st = "run" /\ WriterRecvEnabled(c.down)
        /\ IF WriterRecvOk(c.down)
           THEN Commit(x, StageRun(x, [c EXCEPT !.down = WriterRecv(c.down)]))
           ELSE Commit(x, StageErr([c EXCEPT !.down = WriterRecv(c.down)],
                                   "receiving on a closed channel"))

\* PipedReader::sync of stage x: the recv
StageReaderRecv(x) ==
    LET c == Ctx(x)
    IN  /\ Running /\ x \in DOMAIN stages /\ HasUp(x)
        /\ c.s.st = "run" /\ ReaderRecvEnabled(c.up)
        /\ Commit(x, StageRun(x, [c EXCEPT !.up = ReaderRecv(c.up)]))

\* PipedReader::sync of stage x: the send of the old buffer
StageReaderSend(x) ==
    LET c == Ctx(x)
    IN  /\ Running /\ x \in DOMAIN stages /\ HasUp(x)
        /\ c.s.st = "run" /\ ReaderSendEnabled(c.up)
        /\ Commit(x, StageRun(x, [c EXCEPT !.up = ReaderSend(c.up)]))

\* reader.close() of stage x (BitDecoder::close for the decoder): the
\* PipedReader is dropped
StageCloseReader(x) ==
    LET c == Ctx(x)
    IN  /\ Running /\ x \in DOMAIN stages /\ HasUp(x)
        /\ c.s.st = "run" /\ c.s.closing = "reader"
        /\ Commit(x, StageRun(x, AfterCloseReader(x, [c EXCEPT !.up = ReaderDrop(c.up)])))

\* the function of stage x has returned: an end it still holds is dropped
StageExit(x) ==
    LET c == Ctx(x)
    IN  /\ Running /\ x \in DOMAIN stages
        /\ c.s.st \in {"ok", "err", "panic"}
        /\ \/ /\ HasDown(x) /\ c.down.walive
              /\ Commit(x, [c EXCEPT !.down = WriterDrop(c.down)])
           \/ /\ HasUp(x) /\ c.up.ralive
              /\ Commit(x, [c EXCEPT !.up = ReaderDrop(c.up)])

\* the thread of stage x has finished
Finished(x) ==
    /\ stages[x].st \in {"ok", "err", "panic"}
    /\ ~(HasDown(x) /\ pipes[DownOf(x)].walive)
    /\ ~(HasUp(x) /\ pipes[UpOf(x)].ralive)

\* encode, decode: the order of the thread_join(..)? lines
EncodeJoinOrder ==
    <<"file_reader", "primary_context_encoder", "secondary_context_encoder", "file_writer">>

DecodeJoinOrder == <<"file_reader", "combined_context_decoder", "file_writer">>

\* thread_join of one stage: Ok, the stage's error, or the payload of its panic
ThreadJoin(x) ==
    CASE stages[x].st = "ok" -> "ok"
      [] stages[x].st = "panic" -> "thread panicked"
      [] OTHER -> stages[x].err

\* what the closure given to scope returns, and what scope makes of it: the
\* first thread_join in order that is an Err ends the closure, the handles
\* after it are dropped unjoined, scope waits for their threads, and panics
\* ("a scoped thread panicked") if one of those threads panicked
JoinOutcome(order) ==
    LET failed == {i \in 1..Len(order) : stages[order[i]].st # "ok"}
        first == CHOOSE i \in failed : \A j \in failed : i <= j
    IN  IF failed = {} THEN "ok"
        ELSE IF \E j \in failed : j > first /\ stages[order[j]].st = "panic"
        THEN "a scoped thread panicked"
        ELSE ThreadJoin(order[first])

\* encode: the four joins; Ok iff every stage returned Ok.  Then decode is
\* called on the file written.
JoinEncode ==
    /\ phase = "encode"
    /\ \A x \in EncodeStageNames : Finished(x)
    /\ outcome' = JoinOutcome(EncodeJoinOrder)
    /\ IF JoinOutcome(EncodeJoinOrder) = "ok"
       THEN /\ phase' = "decode"
            /\ compressed' = stages["file_writer"].file
            /\ stages' = DecodeStages(stages["file_writer"].file)
            /\ pipes' = DecodePipes(sizes)
       ELSE /\ phase' = "encode_failed"
            /\ UNCHANGED <<compressed, stages, pipes>>
    /\ UNCHANGED <<input, sizes, expected, fault>>
    /\ UNCHANGED <<coderVars, pipeVars, runVars, tableVars, unitVars>>

\* decode: the three joins
JoinDecode ==
    /\ phase = "decode"
    /\ \A x \in DecodeStageNames : Finished(x)
    /\ outcome' = JoinOutcome(DecodeJoinOrder)
    /\ phase' = IF JoinOutcome(DecodeJoinOrder) = "ok" THEN "done" ELSE "decode_failed"
    /\ UNCHANGED <<input, sizes, stages, pipes, compressed, expected, fault>>
    /\ UNCHANGED <<coderVars, pipeVars, runVars, tableVars, unitVars>>

StageNames == EncodeStageNames \cup DecodeStageNames

CodecNext ==
    \/ \E x \in StageNames : StageStart(x)
    \/ FileRead
    \/ \E x \in StageNames : StageWriterSend(x)
    \/ \E x \in StageNames : StageWriterRecv(x)
    \/ \E x \in StageNames : StageReaderRecv(x)
    \/ \E x \in StageNames : StageReaderSend(x)
    \/ \E x \in StageNames : StageCloseReader(x)
    \/ \E x \in StageNames : StageExit(x)
    \/ JoinEncode
    \/ JoinDecode

CodecSpecInit == CodecInit /\ CoderOff /\ PipeOff /\ RunOff /\ TableOff /\ UnitOff

SpecCodec == CodecSpecInit /\ [][CodecNext]_vars

\* ------------------------------------------------------------------------
\* The codec with one failure from outside: the read of the input file or
\* the write of the output file returns an error, or the thread of a stage
\* panics.  Threads that can take a step are scheduled in the end.
\* ------------------------------------------------------------------------

\* the longest input given to the codec with a failure
MaxFaultLen == 2

FaultInputs == UNION {[1..n -> {65, 66}] : n \in 0..MaxFaultLen}

FaultInit ==
    /\ input \in FaultInputs
    /\ sizes \in [io : 1..MaxSize, message : 1..MaxSize]
    /\ phase = "encode"
    /\ stages = EncodeStages(input)
    /\ pipes = EncodePipes(sizes)
    /\ compressed = <<>>
    /\ expected = EncodeSequentially(input)
    /\ fault = NoFault(1)
    /\ outcome = "none"

\* the failure of stage x is the one from outside
Faulted(x, c, kind) ==
    /\ fault.budget > 0
    /\ stages' = [stages EXCEPT ![x] = c.s]
    /\ pipes' = [q \in DOMAIN pipes |->
                    IF HasUp(x) /\ q = UpOf(x) THEN c.up
                    ELSE IF HasDown(x) /\ q = DownOf(x) THEN c.down
                    ELSE pipes[q]]
    /\ fault' = [budget |-> fault.budget - 1, stage |-> x, kind |-> kind]
    /\ UNCHANGED <<input, sizes, phase, compressed, expected, outcome>>
    /\ UNCHANGED <<coderVars, pipeVars, runVars, tableVars, unitVars>>

\* run_file_reader: self.0.read(buffer)? returns an error
FileReadFails ==
    LET c == Ctx("file_reader")
    IN  /\ Running
        /\ c.s.st = "run" /\ c.s.closing = "no" /\ c.down.wpc = "ready"
        /\ c.down.wbuf # 0
        /\ Faulted("file_reader", StageErr(c, "io"), "io")

\* run_file_writer: the reader's sync ends with the send of the old buffer,
\* and self.0.write_all(buffer)? returns an error
FileWriteFails ==
    LET c == Ctx("file_writer")
    IN  /\ Running
        /\ c.s.st = "run" /\ ReaderSendEnabled(c.up)
        /\ Faulted("file_writer", StageErr([c EXCEPT !.up = ReaderSend(c.up)], "io"), "io")

\* the thread of stage x panics where it is; unwinding drops its ends later
StagePanics(x) ==
    LET c == Ctx(x)
    IN  /\ Running /\ x \in DOMAIN stages
        /\ c.s.st = "run"
        /\ Faulted(x, [c EXCEPT !.s.st = "panic"], "panic")

FaultNext ==
    \/ \E x \in StageNames : StageStart(x)
    \/ FileRead
    \/ \E x \in StageNames : StageWriterSend(x)
    \/ \E x \in StageNames : StageWriterRecv(x)
    \/ \E x \in StageNames : StageReaderRecv(x)
    \/ \E x \in StageNames : StageReaderSend(x)
    \/ \E x \in StageNames : StageCloseReader(x)
    \/ \E x \in StageNames : StageExit(x)
    \/ JoinEncode
    \/ JoinDecode
    \/ FileReadFails
    \/ FileWriteFails
    \/ \E x \in StageNames : StagePanics(x)

FaultSpecInit == FaultInit /\ CoderOff /\ PipeOff /\ RunOff /\ TableOff /\ UnitOff

\* every thread that can take a step takes one in the end; a failure from
\* outside may or may not happen
SpecFault == FaultSpecInit /\ [][FaultNext]_vars /\ WF_vars(CodecNext)

\* ------------------------------------------------------------------------
\* main.rs: one run of the program, `srx c input output` or
\* `srx d input output`.  The files are read and written through a BufReader
\* and a BufWriter; any operation on a file may fail.  What matters here is
\* the order of the operations on the files, so the coded bytes (compress)
\* and the decoded bytes (decompress) are taken freely from small sets.
\* ------------------------------------------------------------------------

SRX_HEADER == <<115, 82, 120, 0>>

\* BufWriter::with_capacity(1 << 20, writer)
WRITER_CAPACITY == 1048576

MaxFileLen == 5

MaxCoded == 1

MaxDecoded == 2

FileAlphabet == {0, 82, 115, 120}

CodedAlphabet == {0, 115}

Files == UNION {[1..n -> FileAlphabet] : n \in 0..MaxFileLen}

\* run(input_path, output_path, is_compress) before its first statement
\*   pc       where run, or main after it, stands
\*   ipos     the bytes taken from the BufReader so far
\*   result   "pending", "ok", or the message of the error returned
\*   faulted  an operation on a file has failed
\*   created  File::create(output_path) has succeeded
\*   file     the bytes of the output file
\*   wbuf     the bytes in the BufWriter's buffer
\*   writer   who holds the BufWriter: "main", "thread", or "dropped"
\*   thread, channel, sender   ThreadedEncoder's thread and its sync_channel(1)
\*   payload  the bytes BitEncoder has written so far
\*   decoded  the number of bytes StreamDecoder has written so far
RunNew(mode, file) ==
    [pc |-> "open", mode |-> mode, input |-> file, ipos |-> 0,
     result |-> "pending", faulted |-> FALSE, created |-> FALSE,
     file |-> <<>>, wbuf |-> <<>>, writer |-> "main",
     thread |-> "none", channel |-> <<>>, sender |-> TRUE,
     payload |-> <<>>, decoded |-> 0]

RunInit == run \in {RunNew(mode, file) : mode \in {"c", "d"}, file \in Files}

\* a writer that puts new data in front of what it holds
BufWrite_InFront(buf, data) == data \o buf

\* BufWriter::write_all of data that fits the buffer: nothing reaches the file
BufWrite(buf, data) == buf \o data

\* the BufWriter is dropped: it tries to write its buffer; j bytes get through
DropWriter(r, j) ==
    [r EXCEPT !.file = r.file \o SubSeq(r.wbuf, 1, j),
              !.wbuf = <<>>,
              !.writer = "dropped",
              !.faulted = r.faulted \/ j < Len(r.wbuf)]

\* run returns Err(message)
RunFails(r, message) == [r EXCEPT !.result = message, !.pc = "returned"]

Elsewhere == UNCHANGED <<coderVars, pipeVars, codecVars, tableVars, unitVars>>

\* File::open(input_path)?; File::create(output_path)?
RunOpen ==
    /\ run.pc = "open"
    /\ \/ run' = [run EXCEPT !.created = TRUE,
                             !.pc = IF run.mode = "c" THEN "header" ELSE "magic"]
       \/ run' = RunFails([run EXCEPT !.faulted = TRUE, !.writer = "dropped"], "io")
    /\ Elsewhere

\* buffered_writer.write_all(&SRX_HEADER)?; StreamEncoder::new(..) spawns the
\* encoder thread and gives it the writer
RunWriteHeader ==
    /\ run.pc = "header"
    /\ Len(run.wbuf) + Len(SRX_HEADER) < WRITER_CAPACITY
    /\ run' = [run EXCEPT !.wbuf = BufWrite(run.wbuf, SRX_HEADER),
                          !.writer = "thread",
                          !.thread = "waiting",
                          !.pc = "encode"]
    /\ Elsewhere

\* StreamEncoder::encode: self.reader.read(&mut byte_result)? gives a byte,
\* whose messages go to the buffer (of 65536 messages), or fails, or gives 0:
\* then the messages of the end, and self.encoder.end(encoder)? sends the buffer
RunEncodeRead ==
    /\ run.pc = "encode"
    /\ \/ /\ run.ipos < Len(run.input)
          /\ run' = [run EXCEPT !.ipos = run.ipos + 1]
       \/ run' = RunFails([run EXCEPT !.faulted = TRUE, !.sender = FALSE], "io")
       \/ /\ run.ipos = Len(run.input)
          /\ Len(run.channel) < 1
          /\ run' = [run EXCEPT !.channel = Append(run.channel, "data"), !.pc = "flush"]
    /\ Elsewhere

\* ThreadedEncoder::flush: send the message of the end (count > BUFFER_SIZE)
RunEncoderFlush ==
    /\ run.pc = "flush"
    /\ Len(run.channel) < 1
    /\ run' = [run EXCEPT !.channel = Append(run.channel, "end"), !.pc = "join"]
    /\ Elsewhere

\* ThreadedEncoder::thread: one receiver.recv() and what follows it
RunThread ==
    /\ run.thread = "waiting"
    /\ run.pc # "exited"
    /\ \/ /\ run.channel # <<>> /\ Head(run.channel) = "data"
          /\ \E n \in 0..MaxCoded : \E bytes \in [1..n -> CodedAlphabet] :
                 /\ Len(run.wbuf) + n < WRITER_CAPACITY
                 /\ run' = [run EXCEPT !.channel = Tail(run.channel),
                                       !.wbuf = BufWrite(run.wbuf, bytes),
                                       !.payload = run.payload \o bytes]
       \/ /\ run.channel # <<>> /\ Head(run.channel) = "end"
          /\ \E byte \in CodedAlphabet :
                 run' = [run EXCEPT !.channel = Tail(run.channel),
                                    !.wbuf = BufWrite(run.wbuf, <<byte>>),
                                    !.payload = Append(run.payload, byte),
                                    !.thread = "done"]
       \/ /\ run.channel = <<>> /\ ~run.sender
          /\ \E j \in 0..Len(run.wbuf) :
                 run' = [DropWriter(run, j) EXCEPT !.thread = "failed"]
    /\ Elsewhere

\* ThreadedEncoder::flush: self.thread.join() gives the writer back
RunJoin ==
    /\ run.pc = "join"
    /\ run.thread = "done"
    /\ run' = [run EXCEPT !.writer = "main", !.pc = "position"]
    /\ Elsewhere

\* done_reader.stream_position()?; done_writer.stream_position()? (which
\* writes the buffer to the file); Ok(..); the BufWriter is dropped
RunPosition ==
    /\ run.pc = "position"
    /\ \/ run' = [DropWriter(run, Len(run.wbuf)) EXCEPT !.result = "ok", !.pc = "returned"]
       \/ \E j \in 0..Len(run.wbuf) :
              run' = RunFails([DropWriter(run, j) EXCEPT !.faulted = TRUE], "io")
    /\ Elsewhere

\* buffered_reader.read_exact(&mut buffer)?; the comparison with SRX_HEADER
RunReadMagic ==
    /\ run.pc = "magic"
    /\ \/ run' = RunFails([DropWriter(run, 0) EXCEPT !.faulted = TRUE], "io")
       \/ run' = IF Len(run.input) < 4
                 THEN RunFails([DropWriter(run, 0) EXCEPT !.ipos = Len(run.input)],
                               "failed to fill whole buffer")
                 ELSE IF SubSeq(run.input, 1, 4) # SRX_HEADER
                 THEN RunFails([DropWriter(run, 0) EXCEPT !.ipos = 4],
                               "Not a SRX compressed file!")
                 ELSE [run EXCEPT !.ipos = 4, !.pc = "decode"]
    /\ Elsewhere

\* StreamDecoder::decode: BitDecoder::bit reads a byte, or the read fails; a
\* decoded byte goes to the writer; the literal of the end is decoded
RunDecode ==
    /\ run.pc = "decode"
    /\ \/ /\ run.ipos < Len(run.input)
          /\ run' = [run EXCEPT !.ipos = run.ipos + 1]
       \/ \E j \in 0..Len(run.wbuf) :
              run' = RunFails([DropWriter(run, j) EXCEPT !.faulted = TRUE], "io")
       \/ /\ run.decoded < MaxDecoded
          /\ Len(run.wbuf) + 1 < WRITER_CAPACITY
          /\ \E byte \in FileAlphabet :
                 run' = [run EXCEPT !.wbuf = BufWrite(run.wbuf, <<byte>>),
                                    !.decoded = run.decoded + 1]
       \/ run' = [run EXCEPT !.pc = "position"]
    /\ Elsewhere

\* main: the result is printed and the process ends
RunExit ==
    /\ run.pc = "returned"
    /\ run' = [run EXCEPT !.pc = "exited"]
    /\ Elsewhere

RunNext ==
    \/ RunOpen
    \/ RunWriteHeader
    \/ RunEncodeRead
    \/ RunEncoderFlush
    \/ RunThread
    \/ RunJoin
    \/ RunPosition
    \/ RunReadMagic
    \/ RunDecode
    \/ RunExit

RunSpecInit == RunInit /\ CoderOff /\ PipeOff /\ CodecOff /\ TableOff /\ UnitOff

SpecRun == RunSpecInit /\ [][RunNext]_vars

\* ------------------------------------------------------------------------
\* primary_context/history/test.rs: the generator of the primary
\* STATE_TABLE. state_auto calls itself; calls is the stack of the calls
\* still to run, the next one first.
\* ------------------------------------------------------------------------

\* PrimitiveStateTable::new, about to run state_auto on (0, 0, 0)
HistoryTableNew ==
    [pc |-> "auto", map |-> {}, calls |-> <<StateZero>>, table |-> <<>>]

HistoryTableInit == history_table = HistoryTableNew

\* the PrimitiveState state_auto makes of current
HistoryPrimitiveState(current) ==
    [current_state |-> current,
     next_if_first |-> NextIfFirst(current),
     next_if_second |-> NextIfSecond(current),
     next_if_third |-> NextIfThird(current),
     next_if_miss |-> NextIfMiss(current)]

\* map.contains_key
HistoryMapHas(map, info) == \E state \in map : state.current_state = info

\* Ord for StateInfo: by first, then second, then third
StateInfoLess(a, b) ==
    \/ a.first < b.first
    \/ a.first = b.first /\ a.second < b.second
    \/ a.first = b.first /\ a.second = b.second /\ a.third < b.third

\* states_index: the position of a state in the states sorted by
\* current_state
StatesIndex(map, info) ==
    Cardinality({state \in map : StateInfoLess(state.current_state, info)})

\* the cast "as u8"
AsU8(n) == n % 256

\* HistoryState::new of the state with its four successors' positions
HistoryStateNew(map, state) ==
    [first_count |-> state.current_state.first,
     next_if_first |-> AsU8(StatesIndex(map, state.next_if_first)),
     next_if_second |-> AsU8(StatesIndex(map, state.next_if_second)),
     next_if_third |-> AsU8(StatesIndex(map, state.next_if_third)),
     next_if_miss |-> AsU8(StatesIndex(map, state.next_if_miss))]

\* one call of state_auto: register the state and, if it is new, call
\* state_auto on its four successors
HistoryStateAuto ==
    /\ history_table.pc = "auto"
    /\ history_table.calls # <<>>
    /\ LET current == Head(history_table.calls)
           full_state == HistoryPrimitiveState(current)
           inserted == ~HistoryMapHas(history_table.map, current)
       IN  history_table' = [history_table EXCEPT
               !.map = @ \cup {full_state},
               !.calls = IF inserted
                         THEN <<full_state.next_if_first,
                                full_state.next_if_second,
                                full_state.next_if_third,
                                full_state.next_if_miss>> \o Tail(@)
                         ELSE Tail(@)]
    /\ UNCHANGED <<coderVars, pipeVars, codecVars, runVars, unitVars, state_table>>

\* test_and_generate_state_table after state_auto has returned: sort the
\* states, index them and build the table; unwrap panics on a successor
\* that is not in the map
HistoryGenerate ==
    /\ history_table.pc = "auto"
    /\ history_table.calls = <<>>
    /\ LET map == history_table.map
           known == \A state \in map :
                        /\ HistoryMapHas(map, state.next_if_first)
                        /\ HistoryMapHas(map, state.next_if_second)
                        /\ HistoryMapHas(map, state.next_if_third)
                        /\ HistoryMapHas(map, state.next_if_miss)
       IN  history_table' =
               IF known
               THEN [history_table EXCEPT
                        !.pc = "done",
                        !.table = [index \in 1..Cardinality(map) |->
                            HistoryStateNew(map,
                                CHOOSE state \in map :
                                    StatesIndex(map, state.current_state) = index - 1)]]
               ELSE [history_table EXCEPT !.pc = "panic"]
    /\ UNCHANGED <<coderVars, pipeVars, codecVars, runVars, unitVars, state_table>>

HistoryTableNext == HistoryStateAuto \/ HistoryGenerate

HistoryTableSpecInit ==
    /\ HistoryTableInit
    /\ state_table = [pc |-> "off"]
    /\ CoderOff /\ PipeOff /\ CodecOff /\ RunOff /\ UnitOff

SpecHistoryTable == HistoryTableSpecInit /\ [][HistoryTableNext]_vars


\* ------------------------------------------------------------------------
\* secondary_context/state/test.rs: the generator of the secondary
\* STATE_TABLE.  A Fraction is the pair of its numerator and denominator.
\* An f64 is kept as the reduced fraction of the real number the program's
\* expression stands for: the values that are compared here differ by far
\* more than the rounding of an f64.
\* ------------------------------------------------------------------------

\* table(): limit_level, 64 in the program
LimitLevel == 8

\* the number of states of the table, 1 << 16 in the program
TableSize == 256

\* u64::trailing_zeros of a number other than 0
RECURSIVE TrailingZeros(_)
TrailingZeros(n) == IF n % 2 = 1 THEN 0 ELSE 1 + TrailingZeros(n \div 2)

RECURSIVE Pow2(_)
Pow2(n) == IF n = 0 THEN 1 ELSE 2 * Pow2(n - 1)

\* fast_gcd, of two odd numbers
RECURSIVE FastGcd(_, _)
FastGcd(first, second) ==
    LET low == IF first > second THEN second ELSE first
        rest == (IF first > second THEN first ELSE second) - low
    IN  IF rest = 0 THEN low ELSE FastGcd(low, rest \div Pow2(TrailingZeros(rest)))

\* gcd
Gcd(first, second) ==
    LET first_power == TrailingZeros(first)
        second_power == TrailingZeros(second)
    IN  FastGcd(first \div Pow2(first_power), second \div Pow2(second_power))
            * Pow2(IF first_power <= second_power THEN first_power ELSE second_power)

\* gcd_reduce, Fraction::new, Fraction::normalize
FractionNew(numerator, denominator) ==
    [numerator |-> numerator \div Gcd(numerator, denominator),
     denominator |-> denominator \div Gcd(numerator, denominator)]

\* the sum and the difference of two fractions over the least common
\* multiple of their denominators, normalized
FractionAdd(a, b) ==
    LET gcd == Gcd(a.denominator, b.denominator)
        self_rem == a.denominator \div gcd
        rhs_rem == b.denominator \div gcd
    IN  FractionNew(a.numerator * rhs_rem + self_rem * b.numerator,
                    self_rem * rhs_rem * gcd)

FractionSub(a, b) ==
    LET gcd == Gcd(a.denominator, b.denominator)
        self_rem == a.denominator \div gcd
        rhs_rem == b.denominator \div gcd
    IN  FractionNew(a.numerator * rhs_rem - self_rem * b.numerator,
                    self_rem * rhs_rem * gcd)

\* the product: each numerator is reduced against the other denominator
FractionMul(a, b) ==
    LET left == FractionNew(a.numerator, b.denominator)
        right == FractionNew(b.numerator, a.denominator)
    IN  [numerator |-> left.numerator * right.numerator,
         denominator |-> right.denominator * left.denominator]

\* f64::total_cmp of a / b and c / d (b, d > 0): -1, 0 or 1.  The fractions
\* are compared by their continued fractions, which needs no product.
RECURSIVE TotalCmp(_, _, _, _)
TotalCmp(a, b, c, d) ==
    IF a \div b # c \div d THEN (IF a \div b < c \div d THEN -1 ELSE 1)
    ELSE IF a % b = 0 \/ c % d = 0
    THEN (IF a % b = c % d THEN 0 ELSE IF a % b = 0 THEN -1 ELSE 1)
    ELSE TotalCmp(d, c % d, b, a % b)

\* Value::Fraction, Value::Prediction
ValueFraction(fraction) ==
    [kind |-> "Fraction", numerator |-> fraction.numerator,
     denominator |-> fraction.denominator]

ValuePrediction(prediction) ==
    [kind |-> "Prediction", numerator |-> prediction.numerator,
     denominator |-> prediction.denominator]

\* Ord for Value: every Fraction is less than every Prediction
ValueLess(a, b) ==
    IF a.kind = b.kind
    THEN TotalCmp(a.numerator, a.denominator, b.numerator, b.denominator) < 0
    ELSE a.kind = "Fraction"

\* Ord for StateIndex: by count, then by value
StateIndexLess(a, b) ==
    \/ a.count < b.count
    \/ a.count = b.count /\ ValueLess(a.value, b.value)

\* state, fraction
StateOf(count, value) == [count |-> count, value |-> value]

FractionValue(numerator, denominator) ==
    ValueFraction(FractionNew(numerator, denominator))

\* prediction_rescaling: x * x / (x * x + (1 - x) * (1 - x)), x the
\* quotient of numerator and denominator
PredictionRescaling(numerator, denominator) ==
    FractionNew(numerator * numerator,
                numerator * numerator
                    + (denominator - numerator) * (denominator - numerator))

\* binary_search_by over predictions[lo + 1 .. hi] (0-based lo .. hi - 1):
\* found and the 0-based index, or the 0-based index to insert at
RECURSIVE BinarySearch(_, _, _, _)
BinarySearch(predictions, prediction, lo, hi) ==
    IF lo >= hi THEN [found |-> FALSE, index |-> lo]
    ELSE LET mid == lo + ((hi - lo) \div 2)
             cmp == TotalCmp(predictions[mid + 1].numerator,
                             predictions[mid + 1].denominator,
                             prediction.numerator, prediction.denominator)
         IN  IF cmp = 0 THEN [found |-> TRUE, index |-> mid]
             ELSE IF cmp < 0 THEN BinarySearch(predictions, prediction, mid + 1, hi)
             ELSE BinarySearch(predictions, prediction, lo, mid)

\* prediction_next, the closest entry: a prediction that is not an entry
\* goes to the entry before it in the lower half and to the entry after it
\* in the upper half
NormalizedAlways_Prev(predictions, prediction) ==
    LET search == BinarySearch(predictions, prediction, 0, Len(predictions))
    IN  IF search.found THEN predictions[search.index + 1]
        ELSE IF search.index = 0 THEN predictions[1]
        ELSE predictions[search.index]

Normalized(predictions, prediction) ==
    LET search == BinarySearch(predictions, prediction, 0, Len(predictions))
    IN  IF search.found THEN predictions[search.index + 1]
        ELSE IF search.index = 0 THEN predictions[1]
        ELSE IF search.index = Len(predictions) THEN predictions[search.index]
        ELSE IF search.index * 2 < Len(predictions)
        THEN predictions[search.index]
        ELSE predictions[search.index + 1]

\* prediction_next: value + (1 - value) / (count + 2) for bit One,
\* value - value / (count + 2) for bit Zero, then the closest entry
PredictionNext(predictions, current_state, bit) ==
    LET count == IF current_state.value.kind = "Fraction"
                 THEN current_state.count + 1
                 ELSE current_state.count
        value == current_state.value
        prediction ==
            IF bit = 1
            THEN FractionNew(value.numerator * (count + 1) + value.denominator,
                             value.denominator * (count + 2))
            ELSE FractionNew(value.numerator * (count + 1),
                             value.denominator * (count + 2))
    IN  StateOf(count, ValuePrediction(Normalized(predictions, prediction)))

\* PrimitiveStateTable::state: the map with the state inserted; the
\* assertion fails if the state is there with other successors
StateMapHas(map, current_state) ==
    \E state \in map : state.current_state = current_state

StateInsert(map, current_state, next_if_zero, next_if_one) ==
    LET full_state == [current_state |-> current_state,
                       next_if_zero |-> next_if_zero,
                       next_if_one |-> next_if_one]
    IN  [map |-> map \cup {full_state},
         ok |-> \A old \in map :
                    old.current_state = current_state => old = full_state]

\* a state_auto whose successors stay on the level of the state
StateAuto_SameLevel(map, current_state) ==
    LET value == [numerator |-> current_state.value.numerator,
                  denominator |-> current_state.value.denominator]
        fraction == [numerator |-> 1, denominator |-> current_state.count + 2]
    IN  [map |-> map \cup
                {[current_state |-> current_state,
                  next_if_zero |-> StateOf(current_state.count,
                      [kind |-> "Fraction",
                       numerator |-> value.numerator * (current_state.count + 1),
                       denominator |-> value.denominator * (current_state.count + 2)]),
                  next_if_one |-> StateOf(current_state.count,
                      [kind |-> "Fraction",
                       numerator |-> value.numerator * (current_state.count + 1)
                                         + value.denominator,
                       denominator |-> value.denominator * (current_state.count + 2)])]},
         ok |-> TRUE]

\* PrimitiveStateTable::state_auto
StateAuto(map, current_state) ==
    LET value == [numerator |-> current_state.value.numerator,
                  denominator |-> current_state.value.denominator]
        fraction == FractionNew(1, current_state.count + 2)
    IN  StateInsert(map, current_state,
            StateOf(current_state.count + 1,
                ValueFraction(FractionSub(value, FractionMul(value, fraction)))),
            StateOf(current_state.count + 1,
                ValueFraction(FractionAdd(value,
                    FractionMul(FractionSub(FractionNew(1, 1), value), fraction)))))

\* PrimitiveStateTable::state_manual
StateManual(map, predictions, current_state) ==
    StateInsert(map, current_state,
        PredictionNext(predictions, current_state, 0),
        PredictionNext(predictions, current_state, 1))

\* Vec::sort_by(f64::total_cmp), a stable sort: each element in turn is put
\* behind the elements that are not greater.  SortedPlace is the number of
\* those among sorted[lo + 1 .. hi]; SortedRange puts seq[lo .. hi] in, by
\* halves.
RECURSIVE SortedPlace(_, _, _, _)
SortedPlace(sorted, element, lo, hi) ==
    IF lo >= hi THEN lo
    ELSE LET mid == lo + ((hi - lo) \div 2)
         IN  IF TotalCmp(sorted[mid + 1].numerator, sorted[mid + 1].denominator,
                         element.numerator, element.denominator) <= 0
             THEN SortedPlace(sorted, element, mid + 1, hi)
             ELSE SortedPlace(sorted, element, lo, mid)

SortedInsert(sorted, element) ==
    LET place == SortedPlace(sorted, element, 0, Len(sorted))
    IN  SubSeq(sorted, 1, place) \o <<element>>
            \o SubSeq(sorted, place + 1, Len(sorted))

RECURSIVE SortedRange(_, _, _, _)
SortedRange(sorted, seq, lo, hi) ==
    IF lo > hi THEN sorted
    ELSE IF lo = hi THEN SortedInsert(sorted, seq[lo])
    ELSE CHOOSE result \in
             {SortedRange(half, seq, ((lo + hi) \div 2) + 1, hi) :
                  half \in {SortedRange(sorted, seq, lo, (lo + hi) \div 2)}} : TRUE

SortedByTotalCmp(seq) == SortedRange(<<>>, seq, 1, Len(seq))

\* u32::from(Value): (fx * 2^32).round() as u32, the four bytes of it.  The
\* quotient is taken byte by byte; the cast saturates
RoundedU32(value) ==
    LET n == value.numerator
        d == value.denominator
        r1 == (n % d) * 256
        r2 == (r1 % d) * 256
        r3 == (r2 % d) * 256
        r4 == (r3 % d) * 256
        floor == <<r1 \div d, r2 \div d, r3 \div d, r4 \div d>>
    IN  IF n >= d THEN U32Max
        ELSE IF 2 * (r4 % d) < d THEN floor
        ELSE IF floor = U32Max THEN U32Max
        ELSE U32Add(floor, U32One)

\* table() before its first loop
StateTableNew ==
    [pc |-> "auto", level |-> 0, index |-> 0, map |-> {},
     predictions |-> <<>>, data_index |-> <<>>, table |-> <<>>]

StateTableInit == state_table = StateTableNew

TableElsewhere == UNCHANGED <<coderVars, pipeVars, codecVars, runVars, unitVars, history_table>>

\* table(), the first loop: state_auto of the state at (level, index), for
\* the levels below limit_level - 1
TableStateAuto ==
    /\ state_table.pc = "auto"
    /\ LET level == state_table.level
           index == state_table.index
           result == StateAuto(state_table.map,
                         StateOf(level, FractionValue(index * 2 + 1, (level + 1) * 2)))
           last == index = level
       IN  state_table' =
               IF ~result.ok THEN [state_table EXCEPT !.pc = "panic"]
               ELSE [state_table EXCEPT
                        !.map = result.map,
                        !.index = IF last THEN 0 ELSE index + 1,
                        !.level = IF last THEN level + 1 ELSE level,
                        !.pc = IF last /\ level + 1 >= LimitLevel - 1
                               THEN "predictions" ELSE "auto"]
    /\ TableElsewhere

\* table(): limit_denominator and the sorted predictions
TablePredictions ==
    /\ state_table.pc = "predictions"
    /\ LET limit_denominator ==
               TableSize - LimitLevel - Cardinality(state_table.map)
       IN  state_table' =
               IF limit_denominator < 0 THEN [state_table EXCEPT !.pc = "panic"]
               ELSE [state_table EXCEPT
                        !.pc = "manual",
                        !.index = 0,
                        !.predictions = SortedByTotalCmp(
                            [index \in 1..limit_denominator |->
                                PredictionRescaling(index, limit_denominator + 1)])]
    /\ TableElsewhere

\* table(), the second loop: state_manual of the states of level
\* limit_level - 1
TableStateManual ==
    /\ state_table.pc = "manual"
    /\ LET index == state_table.index
           result == StateManual(state_table.map, state_table.predictions,
                         StateOf(LimitLevel - 1,
                                 FractionValue(index * 2 + 1, LimitLevel * 2)))
       IN  state_table' =
               IF ~result.ok THEN [state_table EXCEPT !.pc = "panic"]
               ELSE [state_table EXCEPT
                        !.map = result.map,
                        !.index = IF index + 1 >= LimitLevel THEN 0 ELSE index + 1,
                        !.pc = IF index + 1 < LimitLevel THEN "manual"
                               ELSE IF state_table.predictions = <<>> THEN "check"
                               ELSE "pool"]
    /\ TableElsewhere

\* table(), the third loop: state_manual of the state of each prediction
TablePoolState ==
    /\ state_table.pc = "pool"
    /\ LET index == state_table.index
           result == StateManual(state_table.map, state_table.predictions,
                         StateOf(LimitLevel,
                                 ValuePrediction(state_table.predictions[index + 1])))
       IN  state_table' =
               IF ~result.ok THEN [state_table EXCEPT !.pc = "panic"]
               ELSE [state_table EXCEPT
                        !.map = result.map,
                        !.index = index + 1,
                        !.pc = IF index + 1 >= Len(state_table.predictions)
                               THEN "check" ELSE "pool"]
    /\ TableElsewhere

\* test_and_generate_state_table: the assertion on the number of states,
\* then the position of each state in the states sorted by current_state
TableIndex ==
    /\ state_table.pc = "check"
    /\ state_table' =
           IF Cardinality(state_table.map) # TableSize
           THEN [state_table EXCEPT !.pc = "panic"]
           ELSE [state_table EXCEPT
                    !.pc = "generate",
                    !.data_index =
                        [current \in {state.current_state : state \in state_table.map} |->
                            Cardinality({other \in state_table.map :
                                StateIndexLess(other.current_state, current)})]]
    /\ TableElsewhere

\* StateInfo::new of a state: its prediction and the positions of its two
\* successors
StateInfoNew(data_index, state) ==
    [prediction |-> RoundedU32(state.current_state.value),
     next_if_zero |-> data_index[state.next_if_zero] % 65536,
     next_if_one |-> data_index[state.next_if_one] % 65536]

\* test_and_generate_state_table: the table in the order of the positions;
\* unwrap panics on a successor that has no position
TableGenerate ==
    /\ state_table.pc = "generate"
    /\ LET data_index == state_table.data_index
           known == \A state \in state_table.map :
                        /\ state.next_if_zero \in DOMAIN data_index
                        /\ state.next_if_one \in DOMAIN data_index
           at == [index \in 0..(Cardinality(state_table.map) - 1) |->
                     CHOOSE state \in state_table.map :
                         data_index[state.current_state] = index]
       IN  state_table' =
               IF ~known THEN [state_table EXCEPT !.pc = "panic"]
               ELSE [state_table EXCEPT
                        !.pc = "done",
                        !.table = [index \in 1..Cardinality(state_table.map) |->
                                      StateInfoNew(data_index, at[index - 1])]]
    /\ TableElsewhere

StateTableNext ==
    \/ TableStateAuto
    \/ TablePredictions
    \/ TableStateManual
    \/ TablePoolState
    \/ TableIndex
    \/ TableGenerate

StateTableSpecInit ==
    /\ StateTableInit
    /\ history_table = [pc |-> "off"]
    /\ CoderOff /\ PipeOff /\ CodecOff /\ RunOff /\ UnitOff

SpecStateTable == StateTableSpecInit /\ [][StateTableNext]_vars

\* ------------------------------------------------------------------------
\* primary_context/history/history.rs: one ByteHistory under arbitrary
\* bytes.  The u32 of a ByteHistory is kept as its four bytes, most
\* significant first: third, second, first, state; the state is kept as the
\* counts it stands for instead of its position in STATE_TABLE.
\* ------------------------------------------------------------------------

\* a ^ b on 8 bits
Xor8(a, b) ==
    LET BitOf(k) ==
            IF (a \div (2 ^ k)) % 2 # (b \div (2 ^ k)) % 2 THEN 2 ^ k ELSE 0
    IN  BitOf(0) + BitOf(1) + BitOf(2) + BitOf(3) + BitOf(4) + BitOf(5) + BitOf(6) + BitOf(7)

\* ByteHistory(0)
WordNew == <<0, 0, 0, StateZero>>

\* first_byte, second_byte, third_byte, get_state
WordFirst(word) == word[3]

WordSecond(word) == word[2]

WordThird(word) == word[1]

WordState(word) == word[4]

\* a matching that tests the first byte only
WordMatching_FirstOnly(word, next_byte) ==
    IF Xor8(word[3], next_byte) = 0 THEN "FIRST" ELSE "NONE"

\* ByteHistory::matching, the outcome: mask = self.0 ^ (0x01_01_01_00 *
\* next_byte), tested byte by byte from the first
WordMatching(word, next_byte) ==
    LET mask == <<Xor8(word[1], next_byte), Xor8(word[2], next_byte),
                  Xor8(word[3], next_byte), word[4]>>
    IN  IF mask[3] = 0 THEN "FIRST"
        ELSE IF mask[2] = 0 THEN "SECOND"
        ELSE IF mask[1] = 0 THEN "THIRD"
        ELSE "NONE"

\* a SECOND that moves the bytes as a THIRD does
WordMatched_SecondShifts(word, next_byte, matched) ==
    IF matched = "FIRST"
    THEN <<word[1], word[2], word[3], HistoryStateNext(word[4], matched)>>
    ELSE <<word[2], word[3], next_byte, HistoryStateNext(word[4], matched)>>

\* ByteHistory::matched: the masks and shifts on the bytes, then the state
\* from current_state.next(matched)
WordMatched(word, next_byte, matched) ==
    LET updated_history ==
            CASE matched = "FIRST" ->
                     \* byte_history & 0xFF_FF_FF_00
                     <<word[1], word[2], word[3]>>
              [] matched = "SECOND" ->
                     \* (byte_history & 0xFF_00_00_00)
                     \*     | (((byte_history & 0x00_00_FF_00) | next_byte) << 8)
                     <<word[1], word[3], next_byte>>
              [] OTHER ->
                     \* ((byte_history & 0x00_FF_FF_00) | next_byte) << 8
                     <<word[2], word[3], next_byte>>
    IN  updated_history \o <<HistoryStateNext(word[4], matched)>>

\* the bytes tried on the slot
SlotAlphabet == {0, 65, 66, 255}

\* a new slot; unset marks the positions that still hold the 0 the slot
\* was made with (it moves with the byte), and last is the last call
SlotNew ==
    [pc |-> "on", word |-> WordNew,
     unset |-> [first |-> TRUE, second |-> TRUE, third |-> TRUE],
     last |-> [word |-> WordNew, byte |-> 0, matched |-> "none"]]

SlotInit == slot = SlotNew

\* where the marks go when the bytes move
UnsetAfter(unset, matched) ==
    CASE matched = "FIRST" -> unset
      [] matched = "SECOND" ->
             [first |-> FALSE, second |-> unset.first, third |-> unset.third]
      [] OTHER ->
             [first |-> FALSE, second |-> unset.first, third |-> unset.second]

\* ByteHistory::matching(current_state, next_byte), which ends in
\* self.matched(current_state, next_byte, matched)
SlotMatching ==
    /\ slot.pc = "on"
    /\ \E next_byte \in SlotAlphabet :
           LET matched == WordMatching(slot.word, next_byte)
           IN  slot' = [slot EXCEPT
                   !.word = WordMatched(slot.word, next_byte, matched),
                   !.unset = UnsetAfter(slot.unset, matched),
                   !.last = [word |-> slot.word, byte |-> next_byte,
                             matched |-> matched]]
    /\ UNCHANGED <<coderVars, pipeVars, codecVars, runVars, tableVars, probe>>

SlotNext == SlotMatching

SlotSpecInit ==
    /\ SlotInit
    /\ probe = [pc |-> "off"]
    /\ CoderOff /\ PipeOff /\ CodecOff /\ RunOff /\ TableOff

SpecSlot == SlotSpecInit /\ [][SlotNext]_vars

\* ------------------------------------------------------------------------
\* The context indices on their own: BridgedContextInfo::new for a previous
\* byte, a slot, a match count and a hash, then the three decision contexts,
\* then the eight contexts of a literal.
\* ------------------------------------------------------------------------

IndexBytes == {0, 1, 255}

IndexCounts == {0, 3, 4, 5, 66, 67, 68, 255}

IndexHashes == {0, 16383, 16384, 16777215}

IndexLiterals == {0, 15, 16, 170, 240, 255}

IndexInit ==
    \E previous_byte \in IndexBytes, first \in IndexBytes, second \in IndexBytes,
       third \in IndexBytes, match_count \in IndexCounts, hash_value \in IndexHashes :
        probe = [pc |-> "index",
                 previous_byte |-> previous_byte,
                 history |-> [first |-> first, second |-> second, third |-> third,
                              state |-> [first |-> match_count, second |-> 0, third |-> 0]],
                 hash_value |-> hash_value,
                 literal |-> 0,
                 indices |-> <<>>]

\* BridgedContextInfo::new, first_context, second_context, third_context
IndexDecision ==
    /\ probe.pc = "index"
    /\ LET info == BridgedContextInfoNew(probe.previous_byte, probe.history,
                                         probe.hash_value)
       IN  probe' = [probe EXCEPT
                        !.pc = "decision",
                        !.indices = <<FirstContext(info), SecondContext(info),
                                      ThirdContext(info)>>]
    /\ UNCHANGED <<coderVars, pipeVars, codecVars, runVars, tableVars, slot>>

\* literal_context and SecondaryContextEncoder::byte
IndexLiteral ==
    /\ probe.pc = "decision"
    /\ \E byte \in IndexLiterals :
           LET info == BridgedContextInfoNew(probe.previous_byte, probe.history,
                                            probe.hash_value)
               events == ByteEvents(info.literal_context, byte)
           IN  probe' = [probe EXCEPT
                            !.pc = "literal",
                            !.literal = byte,
                            !.indices = [i \in 1..Len(events) |-> events[i][1]]]
    /\ UNCHANGED <<coderVars, pipeVars, codecVars, runVars, tableVars, slot>>

IndexNext == IndexDecision \/ IndexLiteral

IndexSpecInit ==
    /\ IndexInit
    /\ slot = [pc |-> "off"]
    /\ CoderOff /\ PipeOff /\ CodecOff /\ RunOff /\ TableOff

SpecIndex == IndexSpecInit /\ [][IndexNext]_vars

\* ------------------------------------------------------------------------
\* A literal on its own: SecondaryContextEncoder::byte gives the eight
\* <<context, bit>> pairs of a byte, CombinedContextDecoder::byte is given the
\* eight bits one after the other.
\* ------------------------------------------------------------------------

\* CombinedContextDecoder::byte before its first bit
LiteralNew == [node |-> "high", high |-> 1, low |-> 1]

\* the low bits looked up in the block of the high bits 0000
LiteralContext_OneLowBlock(context_index, literal) ==
    IF literal.node = "high" THEN context_index + literal.high
    ELSE context_index + 15 + literal.low

\* CombinedContextDecoder::byte: context_index + high, low_context + low
LiteralContext(context_index, literal) ==
    IF literal.node = "high" THEN context_index + literal.high
    ELSE context_index + 15 * (literal.high - 15) + literal.low

\* CombinedContextDecoder::byte: high += high + bit four times, then
\* low += low + bit four times
LiteralBit(literal, bit) ==
    IF literal.node = "high"
    THEN [literal EXCEPT !.high = 2 * literal.high + bit,
                         !.node = IF 2 * literal.high + bit >= 16 THEN "low" ELSE "high"]
    ELSE [literal EXCEPT !.low = 2 * literal.low + bit,
                         !.node = IF 2 * literal.low + bit >= 16 THEN "done" ELSE "low"]

\* CombinedContextDecoder::byte: ((high - 16) << 4) | (low - 16)
LiteralValue(literal) == (literal.high - 16) * 16 + (literal.low - 16)

LiteralContexts == {0, 256, 4194048}

LiteralInit ==
    \E byte \in 0..255, context_index \in LiteralContexts :
        probe = [pc |-> "byte", byte |-> byte, context_index |-> context_index,
                 events |-> <<>>, literal |-> LiteralNew, visited |-> <<>>]

\* SecondaryContextEncoder::byte
LiteralEncode ==
    /\ probe.pc = "byte"
    /\ probe' = [probe EXCEPT !.pc = "coded",
                              !.events = ByteEvents(probe.context_index, probe.byte)]
    /\ UNCHANGED <<coderVars, pipeVars, codecVars, runVars, tableVars, slot>>

\* one self.bit(..) of CombinedContextDecoder::byte, given the bit the
\* encoder coded at this place
LiteralDecode ==
    /\ probe.pc = "coded"
    /\ probe.literal.node # "done"
    /\ LET bit == probe.events[Len(probe.visited) + 1][2]
       IN  probe' = [probe EXCEPT
                        !.visited = Append(probe.visited,
                                           LiteralContext(probe.context_index, probe.literal)),
                        !.literal = LiteralBit(probe.literal, bit)]
    /\ UNCHANGED <<coderVars, pipeVars, codecVars, runVars, tableVars, slot>>

LiteralNext == LiteralEncode \/ LiteralDecode

LiteralSpecInit ==
    /\ LiteralInit
    /\ slot = [pc |-> "off"]
    /\ CoderOff /\ PipeOff /\ CodecOff /\ RunOff /\ TableOff

SpecLiteral == LiteralSpecInit /\ [][LiteralNext]_vars

\* ------------------------------------------------------------------------
\* The secondary table on its own: the same bits under the same indices
\* through SecondaryContextEncoder::bit and CombinedContextDecoder::bit, each
\* on its own table.
\* ------------------------------------------------------------------------

MaxUpdates == 4

\* the first and the last index of the table
UpdateIndices == {0, SECONDARY_CONTEXT_SIZE - 1}

UpdateInit ==
    probe = [pc |-> "update", count |-> 0,
             encoder |-> SecondaryContextNew, decoder |-> SecondaryContextNew,
             last |-> [context_index |-> 0, bit |-> 0, table |-> SecondaryContextNew,
                       encoder |-> U32Zero, decoder |-> U32Zero]]

\* SecondaryContextEncoder::bit: self.context.update(context_index, bit), its
\* value given to the coder.  CombinedContextDecoder::bit: the prediction
\* read, given to the coder, then the update with the bit decoded.
UpdateBit ==
    /\ probe.pc = "update"
    /\ probe.count < MaxUpdates
    /\ \E context_index \in UpdateIndices, bit \in {0, 1} :
           probe' = [probe EXCEPT
               !.count = probe.count + 1,
               !.encoder = SecondaryContextUpdate(probe.encoder, context_index, bit),
               !.decoder = SecondaryContextUpdate(probe.decoder, context_index, bit),
               !.last = [context_index |-> context_index, bit |-> bit,
                         table |-> probe.encoder,
                         encoder |-> SecondaryContextUpdated(probe.encoder,
                                                             context_index, bit),
                         decoder |-> DecoderPrediction(probe.decoder, context_index)]]
    /\ UNCHANGED <<coderVars, pipeVars, codecVars, runVars, tableVars, slot>>

UpdateNext == UpdateBit

UpdateSpecInit ==
    /\ UpdateInit
    /\ slot = [pc |-> "off"]
    /\ CoderOff /\ PipeOff /\ CodecOff /\ RunOff /\ TableOff

SpecUpdate == UpdateSpecInit /\ [][UpdateNext]_vars

\* ------------------------------------------------------------------------
\* Packed messages on their own: PackedMessage::bit or PackedMessage::byte
\* of a context and a value, or the messages run_primary_context_encoder
\* writes for a byte or for the end, then PackedMessage::get of each.
\* ------------------------------------------------------------------------

\* contexts below 2^30, the last being 2^30 - 1
PackedBitContexts == {0, 1, 5005311, 16777216, 536870912, 1073741823}

\* multiples of 256 below 2^31, the last being 2^31 - 256
PackedByteContexts == {0, 256, 4194048, 1073741824, 2147483392}

PackedCounts == {0, 3, 4, 255}

PackedHashes == {0, 16383, 16777215}

PackedOutcomes == {"FIRST", "SECOND", "THIRD", "NONE", "EOF"}

PackedInit ==
    \/ \E context \in PackedBitContexts, bit \in {0, 1} :
           probe = [pc |-> "call", kind |-> "Bit", context |-> context, value |-> bit,
                    packed |-> <<>>, got |-> <<>>]
    \/ \E context \in PackedByteContexts, byte \in 0..255 :
           probe = [pc |-> "call", kind |-> "Byte", context |-> context, value |-> byte,
                    packed |-> <<>>, got |-> <<>>]
    \/ \E previous_byte \in {0, 255}, first \in IndexBytes, second \in IndexBytes,
          third \in IndexBytes, match_count \in PackedCounts,
          hash_value \in PackedHashes, matched \in PackedOutcomes,
          current_byte \in {0, 65, 255} :
           probe = [pc |-> "primary",
                    info |-> BridgedContextInfoNew(previous_byte,
                                 [first |-> first, second |-> second, third |-> third,
                                  state |-> [first |-> match_count, second |-> 0,
                                             third |-> 0]],
                                 hash_value),
                    matched |-> matched, value |-> current_byte,
                    packed |-> <<>>, got |-> <<>>]

\* PackedMessage::bit, PackedMessage::byte
PackedCall ==
    /\ probe.pc = "call"
    /\ probe' = [probe EXCEPT
           !.pc = "called",
           !.packed = IF probe.kind = "Bit"
                      THEN <<PackedMessageBit(probe.context, probe.value)>>
                      ELSE <<PackedMessageByte(probe.context, probe.value)>>]
    /\ UNCHANGED <<coderVars, pipeVars, codecVars, runVars, tableVars, slot>>

\* run_primary_context_encoder: the messages of a byte, or of the end
PackedPrimary ==
    /\ probe.pc = "primary"
    /\ probe' = [probe EXCEPT
           !.pc = "written",
           !.packed = IF probe.matched = "EOF" THEN EofMessages(probe.info)
                      ELSE ByteMessages(probe.info, probe.matched, probe.value)]
    /\ UNCHANGED <<coderVars, pipeVars, codecVars, runVars, tableVars, slot>>

\* SecondaryContextEncoder::encode: message.get() of each message
PackedGet ==
    /\ probe.pc \in {"called", "written"}
    /\ probe.got = <<>>
    /\ probe' = [probe EXCEPT
           !.got = [i \in 1..Len(probe.packed) |-> PackedMessageGet(probe.packed[i])]]
    /\ UNCHANGED <<coderVars, pipeVars, codecVars, runVars, tableVars, slot>>

PackedNext == PackedCall \/ PackedPrimary \/ PackedGet

PackedSpecInit ==
    /\ PackedInit
    /\ slot = [pc |-> "off"]
    /\ CoderOff /\ PipeOff /\ CodecOff /\ RunOff /\ TableOff

SpecPacked == PackedSpecInit /\ [][PackedNext]_vars

\* ------------------------------------------------------------------------
\* Pipe properties
\* ------------------------------------------------------------------------

IsPrefix(a, b) == Len(a) <= Len(b) /\ SubSeq(b, 1, Len(a)) = a

\* C3: the elements read / consume return are, in order, a prefix of the
\* elements given to write / produce (nothing lost, duplicated or
\* reordered); once the writer has closed successfully and the reader has
\* read to end-of-stream the two sequences are equal.
C3_FifoDelivery ==
    /\ IsPrefix(taken, given)
    /\ (wclient = "closed" /\ rclient = "eof") => taken = given

\* C3 witness: with buffers of two elements the writer has written all its
\* elements and closed, and the reader has read all of them and then None
C3_Witness ==
    /\ pipe.size = 2
    /\ wclient = "closed" /\ wcall.result = "ok"
    /\ rclient = "eof"
    /\ Len(taken) = MaxItems

\* C10 as stated: once the reader end has been dropped, every write or
\* produce the upstream stage begins afterwards returns an error and the
\* stage fails.
C10_EveryWriteAfterDropFails ==
    (wcall.afterDrop /\ wcall.op \in {"write", "produce"} /\ wcall.result # "pending")
        => (wcall.result = "err" /\ wclient = "failed")

\* C10 amended: once the reader end has been dropped, every write, produce
\* or close begun afterwards that has to hand over the buffer (a write or
\* produce that fills it, a close of a non-empty one) returns an error, at
\* its send, and the stage fails with it; a write or produce that leaves
\* the buffer partly filled returns Ok.
C10_BrokenPipe ==
    /\ (wcall.afterDrop /\ wcall.synced /\ wcall.result # "pending")
           => (wcall.result = "err" /\ wclient = "failed")
    /\ (wcall.afterDrop /\ wcall.result = "pending") => pipe.wpc = "send"
    /\ (wcall.afterDrop /\ ~wcall.synced /\ wcall.result # "pending")
           => wcall.result = "ok"

\* C10 witness: after the reader took elements and was dropped, a produce
\* that filled the buffer returned an error and the stage failed
C10_Witness ==
    /\ rclient = "dropped" /\ Len(taken) >= 1
    /\ wcall.op = "produce" /\ wcall.afterDrop /\ wcall.synced
    /\ wcall.result = "err" /\ wclient = "failed"
    /\ Len(given) >= 3

\* the elements of the buffer waiting in the forward channel
InChannel(p) == IF p.fwd = <<>> THEN <<>> ELSE Head(p.fwd)[2]

\* C11: while the reader is open, the elements handed over are those it has
\* delivered, those left in its buffer and those in the forward channel, in
\* that order; a read returns end-of-stream only when the writer has been
\* closed or dropped and every element handed over has been delivered, and
\* from then on the reader's buffer is None, so that every later read returns
\* end-of-stream as well; once the writer is gone and everything handed over
\* is delivered, the reader has nothing left to return but end-of-stream.
C11_EndOfStream ==
    /\ pipe.ralive =>
           handed = taken \o ReaderAvailable(pipe) \o InChannel(pipe)
    /\ rclient = "eof" =>
           /\ ~pipe.walive
           /\ taken = handed
           /\ pipe.rbuf = 0 /\ pipe.rpc = "ready"
    /\ (~pipe.walive /\ rclient = "run" /\ taken = handed) =>
           /\ ReaderAvailable(pipe) = <<>>
           /\ pipe.fwd = <<>>
           /\ pipe.rpc # "send"

\* the writing stage failed with its third element not yet handed over; the
\* reader delivered the two elements of the buffer handed over and then
\* returned end-of-stream
C11_Witness ==
    /\ wclient = "failed" /\ rclient = "eof"
    /\ given = <<1, 2, 3>> /\ handed = <<1, 2>> /\ taken = <<1, 2>>

\* every place of the pipe where a buffer can be, with the buffer that is
\* there (0: none): the writer, the reader, the old buffer in the reader's
\* sync, the forward channel, the return channel
Places(p) ==
    <<p.wbuf, p.rbuf, p.rold>> \o [i \in 1..Len(p.fwd) |-> p.fwd[i][1]] \o p.back

\* the number of places buffer b is in
PlacesOf(p, b) == Cardinality({i \in DOMAIN Places(p) : Places(p)[i] = b})

\* C15: while both ends of the pipe are open, each of the two buffers made
\* by pipe() is in exactly one place (the writer, the reader, the forward
\* channel or the return channel), there is no third buffer, and neither
\* channel holds more than one buffer.
C15_BufferOwnership ==
    (pipe.walive /\ pipe.ralive) =>
        /\ PlacesOf(pipe, 1) = 1
        /\ PlacesOf(pipe, 2) = 1
        /\ \A i \in DOMAIN Places(pipe) : Places(pipe)[i] \in {0, 1, 2}
        /\ Len(pipe.fwd) <= 1
        /\ Len(pipe.back) <= 1

\* both ends open, elements delivered before: the writer has sent a buffer
\* and waits for the other one, which the reader holds as its old buffer
C15_Witness ==
    /\ pipe.walive /\ pipe.ralive
    /\ Len(taken) >= 1
    /\ pipe.wbuf = 0 /\ Len(pipe.fwd) = 1 /\ pipe.rold # 0 /\ pipe.rbuf = 0

\* ------------------------------------------------------------------------
\* Codec properties
\* ------------------------------------------------------------------------

Encoding == phase \in {"encode", "encode_failed"}

Decoding == phase \in {"decode", "decode_failed", "done"}

\* C1: what decode writes is at every moment a prefix of the input of encode;
\* the decoder takes a literal for the end only when it has emitted the whole
\* input, and emits nothing after it; when decode has returned, the file
\* written is the input.  Encode does not fail.
C1_RoundTrip ==
    /\ phase # "encode_failed"
    /\ Decoding =>
           LET decoder == stages["combined_context_decoder"]
               file == stages["file_writer"].file
           IN  /\ IsPrefix(file, decoder.written)
               /\ IsPrefix(decoder.written, input)
               /\ decoder.closing # "no" => decoder.written = input
               /\ decoder.st = "ok" => decoder.written = input
               /\ phase # "decode" => file = input

\* a 19-byte input with matches of all three ranks went through both
\* pipelines with buffers of two bytes
C1_Witness ==
    /\ phase = "done"
    /\ Len(input) = 19
    /\ sizes.io = 2
    /\ stages["file_writer"].file = input
    /\ stages["combined_context_decoder"].nread > Len(compressed)

\* C2: whatever the interleaving and the buffer sizes, the <<context, bit>>
\* pairs the range coder is given and the bytes written are those of the
\* three loops run one after the other on the input.
C2_Determinism ==
    /\ phase = "encode" =>
           LET encoder == stages["secondary_context_encoder"]
           IN  /\ IsPrefix(stages["primary_context_encoder"].sent, expected.messages)
               /\ IsPrefix(encoder.events, expected.events)
               /\ IsPrefix(stages["file_writer"].file, expected.output)
               /\ encoder.st = "ok" => encoder.events = expected.events
    /\ phase # "encode_failed"
    /\ Decoding => compressed = expected.output

\* encode has returned for a 13-byte input, with an io buffer of one byte and
\* a message buffer of two messages
C2_Witness ==
    /\ phase = "decode"
    /\ Len(input) = 13
    /\ sizes = [io |-> 1, message |-> 2]
    /\ compressed = expected.output
    /\ Len(expected.events) > 13

\* the messages logged by run_primary_context_encoder, in order
RECURSIVE LoggedMessages(_, _)
LoggedMessages(log, i) ==
    IF i > Len(log) THEN <<>> ELSE log[i].messages \o LoggedMessages(log, i + 1)

\* C4: the primary encoder handles the bytes of the input in order and then,
\* once, the end: three messages, bit 1 under the first context, bit 0 under
\* the second context and the literal `first` of the slot at the current
\* hash, under the literal context; then it closes.  What it has written to
\* the message pipe is a prefix of these messages, and all of them when it
\* has returned.  For the empty input and for "A" the literal is 0.
C4_EofMarkerPlacement ==
    phase = "encode" =>
        LET encoder == stages["primary_context_encoder"]
            log == encoder.log
            info == ContextInfo(encoder.context)
        IN  /\ Len(log) <= Len(input) + 1
            /\ \A i \in 1..Len(log) :
                   IF i <= Len(input)
                   THEN log[i].kind = "byte" /\ log[i].byte = input[i]
                   ELSE /\ log[i].kind = "eof"
                        /\ Len(log[i].messages) = 3
                        /\ PackedMessageGet(log[i].messages[1]) =
                               [kind |-> "Bit", context |-> FirstContext(info), value |-> 1]
                        /\ PackedMessageGet(log[i].messages[2]) =
                               [kind |-> "Bit", context |-> SecondContext(info), value |-> 0]
                        /\ PackedMessageGet(log[i].messages[3]) =
                               [kind |-> "Byte", context |-> info.literal_context,
                                value |-> GetHistory(encoder.context).first]
                        /\ input \in {<<>>, <<65>>} =>
                               PackedMessageGet(log[i].messages[3]).value = 0
            /\ IsPrefix(encoder.sent, LoggedMessages(log, 1))
            /\ encoder.closing # "no" => Len(log) = Len(input) + 1
            /\ encoder.st = "ok" =>
                   /\ Len(log) = Len(input) + 1
                   /\ encoder.sent = LoggedMessages(log, 1)

\* the primary encoder has returned after a 19-byte input whose end has a
\* literal other than 0
C4_Witness ==
    /\ phase = "encode"
    /\ Len(input) = 19
    /\ stages["primary_context_encoder"].st = "ok"
    /\ Len(stages["primary_context_encoder"].log) = 20
    /\ stages["primary_context_encoder"].log[20].kind = "eof"
    /\ PackedMessageGet(stages["primary_context_encoder"].log[20].messages[3]).value # 0

\* C5: a byte the primary encoder classifies NONE differs from the first, the
\* second and the third byte of its slot, so the literal of its third message
\* is not the slot's first byte; and the decoder takes a literal for the end
\* only after the last byte of the input.
C5_NoneDiffersFromFirst ==
    /\ phase = "encode" =>
           LET log == stages["primary_context_encoder"].log
           IN  \A i \in 1..Len(log) :
                   (log[i].kind = "byte" /\ log[i].matched = "NONE") =>
                       /\ log[i].byte # log[i].info.first_byte
                       /\ log[i].byte # log[i].info.second_byte
                       /\ log[i].byte # log[i].info.third_byte
                       /\ PackedMessageGet(log[i].messages[3]).value = log[i].byte
    /\ phase = "decode" =>
           (stages["combined_context_decoder"].closing # "no"
                => Len(stages["combined_context_decoder"].written) = Len(input))

\* the primary encoder has returned, having classified the byte 65 NONE
\* against a slot whose first byte is 66
C5_Witness ==
    /\ phase = "encode"
    /\ stages["primary_context_encoder"].st = "ok"
    /\ \E i \in 1..Len(stages["primary_context_encoder"].log) :
           LET entry == stages["primary_context_encoder"].log[i]
           IN  /\ entry.kind = "byte"
               /\ entry.matched = "NONE"
               /\ entry.byte = 65
               /\ entry.info.first_byte = 66

\* ------------------------------------------------------------------------
\* Properties of the codec with a failure
\* ------------------------------------------------------------------------

\* encode or decode has returned an error or panicked
Failed == phase \in {"encode_failed", "decode_failed"}

\* the run is over: encode failed, or decode has returned
Ended == Failed \/ phase = "done"

\* C12: when the read of the input file or the write of the output file has
\* failed, encode / decode returns that I/O error, and not the error of a
\* stage that found its pipe closed.
C12_FirstErrorWins ==
    (Failed /\ fault.kind = "io") => outcome = "io"

\* C13: when the thread of a stage has panicked, encode / decode returns an
\* error to its caller and does not panic itself.
C13_PanicReportedAsError ==
    (Ended /\ fault.kind = "panic") =>
        /\ Failed
        /\ outcome # "a scoped thread panicked"

\* the thread of stage x can take a step: it starts, a send or a recv of
\* one of its pipes returns, it drops its reader, it reads the file, or it
\* has returned and drops the ends it still holds
StageCanStep(x) ==
    LET c == Ctx(x)
    IN  \/ c.s.st = "new"
        \/ /\ c.s.st = "run"
           /\ \/ HasDown(x) /\ (WriterSendEnabled(c.down) \/ WriterRecvEnabled(c.down))
              \/ HasUp(x) /\ (ReaderRecvEnabled(c.up) \/ ReaderSendEnabled(c.up))
              \/ HasUp(x) /\ c.s.closing = "reader"
              \/ x = "file_reader" /\ c.s.closing = "no" /\ c.down.wpc = "ready"
        \/ c.s.st \in {"ok", "err", "panic"} /\ ~Finished(x)

\* the decoder is followed no further
DecoderCapped ==
    /\ phase = "decode"
    /\ Len(stages["combined_context_decoder"].written) >= MaxWritten

\* the decoder is in decode's loop with its input at end-of-stream and
\* value = high = 0xFFFFFFFF.  Every shift then reads 0xFF and keeps value
\* and high, and every bit is Zero (middle < high = value) and keeps high: the
\* loop emits the slot's first byte and is in such a state again, for ever.
DecoderRunsAway ==
    /\ phase = "decode"
    /\ LET c == Ctx("combined_context_decoder")
       IN  /\ c.s.st = "run" /\ c.s.closing = "no"
           /\ c.up.rbuf = 0 /\ c.up.rpc = "ready"
           /\ c.s.decoder.value = U32Max /\ c.s.decoder.high = U32Max

\* C14: a run of the codec, with or without a failure of one stage, comes
\* to its end: as long as encode or decode has not returned, a stage can
\* take a step or all stages have finished and are joined, so no stage stays
\* blocked on a send or a recv; and no stage is in a loop it cannot leave.
C14_PipelineTerminates ==
    /\ (Running /\ ~DecoderCapped) =>
           \/ \E x \in DOMAIN stages : StageCanStep(x)
           \/ \A x \in DOMAIN stages : Finished(x)
    /\ ~DecoderRunsAway

\* no stage stays blocked: the part of C14 that holds
NoStageBlocked ==
    (Running /\ ~DecoderCapped) =>
        \/ \E x \in DOMAIN stages : StageCanStep(x)
        \/ \A x \in DOMAIN stages : Finished(x)

\* ------------------------------------------------------------------------
\* Program properties
\* ------------------------------------------------------------------------

\* the file does not begin with the four bytes of SRX_HEADER
BadHeader(file) == Len(file) < 4 \/ SubSeq(file, 1, 4) # SRX_HEADER

\* C8: when decompression of a file that does not begin with 73 52 78 00 has
\* returned, no operation on a file having failed, the error is "Not a SRX
\* compressed file!", at most four bytes of the input were taken and nothing
\* was decoded or written.
C8_BadHeaderRejected ==
    (/\ run.pc \in {"returned", "exited"}
     /\ run.mode = "d"
     /\ ~run.faulted
     /\ BadHeader(run.input))
        => /\ run.result = "Not a SRX compressed file!"
           /\ run.ipos <= 4
           /\ run.decoded = 0
           /\ run.file = <<>>

ActiveCoder == IF cphase = "enc" THEN enc ELSE dec

\* C6 as stated: low < high after every encode/decode step (the assignment
\* low <- middle + 1 or high <- middle) and after every renormalization
\* shift, for every bit sequence and every 32-bit probability.
C6_LowBelowHighAfterEveryStep ==
    clast \in {"split", "shift"} => U32Lt(ActiveCoder.low, ActiveCoder.high)

\* C6 amended: after the assignment of a split low <= high (low = high
\* happens, e.g. probability 0 with bit One); after every renormalization
\* shift, and whenever the renormalization loop has finished, low < high.
C6_IntervalInvariant ==
    /\ clast = "split" => U32Le(ActiveCoder.low, ActiveCoder.high)
    /\ clast = "shift" => U32Lt(ActiveCoder.low, ActiveCoder.high)
    /\ (clast # "new" /\ ~NeedShift(ActiveCoder))
           => U32Lt(ActiveCoder.low, ActiveCoder.high)

\* C6 witness: an encoder that was left with low = high by a split has
\* shifted four bytes out and is renormalized again
C6_Witness ==
    /\ cphase = "enc"
    /\ clast = "shift"
    /\ ~NeedShift(enc)
    /\ Len(coded) >= 2
    /\ Len(stream) >= 4

\* C7: at every split, with delta = ((high - low) * p) >> 32 in 64 bits and
\* middle = low + delta: low <= middle < high, and neither low + delta nor
\* middle + 1 overflows 32 bits.
C7_SplitInvariant ==
    clast = "split" =>
        LET delta == Delta(csplit.low, csplit.high, csplit.prediction)
            middle == Middle(csplit.low, csplit.high, csplit.prediction)
        IN  /\ U32Le(csplit.low, middle)
            /\ U32Lt(middle, csplit.high)
            /\ ~U32AddOverflows(csplit.low, delta)
            /\ ~U32AddOverflows(middle, U32One)

\* C7 witness: a decoder split, not the first, under the largest probability,
\* where middle is the largest value the claim allows (middle + 1 = high)
C7_Witness ==
    /\ cphase = "dec"
    /\ clast = "split"
    /\ Len(decoded) >= 2
    /\ csplit.prediction = U32Max
    /\ U32Add(Middle(csplit.low, csplit.high, csplit.prediction), U32One) = csplit.high

\* ------------------------------------------------------------------------
\* Properties of the state tables
\* ------------------------------------------------------------------------

\* the state the table has at a position
HistoryStateAt(index) ==
    CHOOSE state \in history_table.map :
        StatesIndex(history_table.map, state.current_state) = index

\* C16: the closure of (0, 0, 0) under the four transitions with the bounds
\* (67, 7, 3) never holds more than 256 states, and in the generated table
\* every successor position is below 256, so the 8-bit field of a table
\* entry names the successor state itself for each of the four outcomes.
C16_HistoryTableClosure ==
    /\ history_table.pc \in {"auto", "done"} =>
           Cardinality(history_table.map) <= 256
    /\ history_table.pc # "panic"
    /\ history_table.pc = "done" =>
           /\ Len(history_table.table) = Cardinality(history_table.map)
           /\ \A state \in history_table.map :
                  LET entry == history_table.table[
                          StatesIndex(history_table.map, state.current_state) + 1]
                  IN  /\ entry.first_count = MatchCount(state.current_state)
                      /\ HistoryStateAt(entry.next_if_first).current_state
                             = NextIfFirst(state.current_state)
                      /\ HistoryStateAt(entry.next_if_second).current_state
                             = NextIfSecond(state.current_state)
                      /\ HistoryStateAt(entry.next_if_third).current_state
                             = NextIfThird(state.current_state)
                      /\ HistoryStateAt(entry.next_if_miss).current_state
                             = NextIfMiss(state.current_state)

\* the table is generated, it has 255 entries, and each of the three
\* counts reaches its bound in one of them
C16_Witness ==
    /\ history_table.pc = "done"
    /\ Len(history_table.table) = 255
    /\ HistoryMapHas(history_table.map,
           [first |-> MAX_FIRST, second |-> 1, third |-> 1])
    /\ HistoryMapHas(history_table.map,
           [first |-> 0, second |-> MAX_SECOND, third |-> 1])
    /\ HistoryMapHas(history_table.map,
           [first |-> 0, second |-> 4, third |-> MAX_THIRD])

\* ------------------------------------------------------------------------
\* The two scenarios of the primary model
\* ------------------------------------------------------------------------

\* the primary encoder has returned from the given input
PrimaryEncoderDone(scenario) ==
    /\ phase = "encode"
    /\ input = scenario
    /\ stages["primary_context_encoder"].st = "ok"

\* the outcomes the primary encoder logged for the bytes of the input
LoggedOutcomes ==
    LET log == stages["primary_context_encoder"].log
    IN  [i \in 1..Len(input) |-> log[i].matched]

\* the literal of a logged NONE or end: the value of its third message
LoggedLiteral(i) ==
    PackedMessageGet(stages["primary_context_encoder"].log[i].messages[3]).value

\* the slots of the context table written so far
WrittenSlots == DOMAIN stages["primary_context_encoder"].context.context

\* C17 as stated: for the input "AAAA" the first byte is NONE with literal
\* 0x41, each of the next three bytes is FIRST against a slot whose first
\* byte is 0x41, and the literal of the end marker is 0x41.
C17_ScenarioAAAA_AsStated ==
    PrimaryEncoderDone(<<65, 65, 65, 65>>) =>
        LET log == stages["primary_context_encoder"].log
        IN  /\ LoggedOutcomes = <<"NONE", "FIRST", "FIRST", "FIRST">>
            /\ LoggedLiteral(1) = 65
            /\ \A i \in 2..4 : log[i].info.first_byte = 65
            /\ log[5].kind = "eof" /\ LoggedLiteral(5) = 65

\* C17: for the input "AAAA" each of the four bytes is NONE with literal
\* 0x41: the hash moves on with every byte (0, 66, 10626, 1700226), so each
\* byte is matched against a slot of its own that was never written, whose
\* first byte is 0x00; the end marker is coded against a fifth such slot and
\* its literal is 0x00.
C17_ScenarioAAAA ==
    PrimaryEncoderDone(<<65, 65, 65, 65>>) =>
        LET log == stages["primary_context_encoder"].log
        IN  /\ LoggedOutcomes = <<"NONE", "NONE", "NONE", "NONE">>
            /\ \A i \in 1..4 : LoggedLiteral(i) = 65 /\ log[i].info.first_byte = 0
            /\ WrittenSlots = {0, 66, 10626, 1700226}
            /\ \A h \in WrittenSlots :
                   stages["primary_context_encoder"].context.context[h].first = 65
            /\ stages["primary_context_encoder"].context.hash_value \notin WrittenSlots
            /\ log[5].kind = "eof" /\ LoggedLiteral(5) = 0

C17_Witness ==
    /\ PrimaryEncoderDone(<<65, 65, 65, 65>>)
    /\ Len(stages["primary_context_encoder"].log) = 5
    /\ Len(stages["primary_context_encoder"].sent) = 15

\* C18 as stated: for the input "ABAB" the outcomes are NONE, NONE, SECOND,
\* SECOND, followed by the end marker.
C18_ScenarioABAB_AsStated ==
    PrimaryEncoderDone(<<65, 66, 65, 66>>) =>
        /\ LoggedOutcomes = <<"NONE", "NONE", "SECOND", "SECOND">>
        /\ stages["primary_context_encoder"].log[5].kind = "eof"

\* C18: for the input "ABAB" the outcomes are NONE, NONE, NONE, NONE,
\* followed by the end marker: the second A and the second B are matched
\* against slots of their own (hash 10627 and 1700386) that were never
\* written, not against the slots the first A and B were stored in (0, 66).
C18_ScenarioABAB ==
    PrimaryEncoderDone(<<65, 66, 65, 66>>) =>
        LET log == stages["primary_context_encoder"].log
        IN  /\ LoggedOutcomes = <<"NONE", "NONE", "NONE", "NONE">>
            /\ \A i \in 1..4 : LoggedLiteral(i) = input[i]
            /\ WrittenSlots = {0, 66, 10627, 1700386}
            /\ \A h \in WrittenSlots :
                   LET history == stages["primary_context_encoder"].context.context[h]
                   IN  /\ history.first = (IF h \in {0, 10627} THEN 65 ELSE 66)
                       /\ history.second = 0
                       /\ history.third = 0
            /\ log[5].kind = "eof"
            /\ Len(log) = 5

C18_Witness ==
    /\ PrimaryEncoderDone(<<65, 66, 65, 66>>)
    /\ stages["primary_context_encoder"].log[4].byte = 66
    /\ stages["primary_context_encoder"].log[5].kind = "eof"

\* ------------------------------------------------------------------------
\* Properties of the secondary state table
\* ------------------------------------------------------------------------

\* the counted state (level, k): k of the level bits seen were ones
CountedState(level, k) == StateOf(level, FractionValue(2 * k + 1, 2 * (level + 1)))

\* the entry of a counted state whose successors are the counted states
\* (level + 1, k) and (level + 1, k + 1)
CountedEntry(level, k) ==
    [current_state |-> CountedState(level, k),
     next_if_zero |-> CountedState(level + 1, k),
     next_if_one |-> CountedState(level + 1, k + 1)]

\* the states registered so far
TableStates == {state.current_state : state \in state_table.map}

ProbabilityCmp(a, b) ==
    TotalCmp(a.value.numerator, a.value.denominator,
             b.value.numerator, b.value.denominator)

\* the pool state with the greatest prediction on bit 1, and the one with
\* the least prediction on bit 0
Saturated(current_state, bit) ==
    /\ current_state.value.kind = "Prediction"
    /\ state_table.predictions # <<>>
    /\ current_state.value =
           ValuePrediction(state_table.predictions[
               IF bit = 1 THEN Len(state_table.predictions) ELSE 1])

SlotRecord(word) ==
    [first |-> WordFirst(word), second |-> WordSecond(word),
     third |-> WordThird(word), state |-> WordState(word)]

\* C21: the byte is tested against first, then second, then third: a byte
\* equal to first is FIRST and leaves the bytes; else equal to second is
\* SECOND and the slot becomes (byte, old first, old third); else equal to
\* third is THIRD and the slot becomes (byte, old first, old second); else
\* NONE and the slot becomes (byte, old first, old second); the state
\* becomes the successor of the old state for the outcome.
C21_SlotProtocol ==
    (slot.pc = "on" /\ slot.last.matched # "none") =>
        LET old == SlotRecord(slot.last.word)
            new == SlotRecord(slot.word)
            x == slot.last.byte
            matched == slot.last.matched
        IN  /\ matched = (IF x = old.first THEN "FIRST"
                          ELSE IF x = old.second THEN "SECOND"
                          ELSE IF x = old.third THEN "THIRD"
                          ELSE "NONE")
            /\ matched = "FIRST" =>
                   <<new.first, new.second, new.third>>
                       = <<old.first, old.second, old.third>>
            /\ matched = "SECOND" =>
                   <<new.first, new.second, new.third>> = <<x, old.first, old.third>>
            /\ matched \in {"THIRD", "NONE"} =>
                   <<new.first, new.second, new.third>> = <<x, old.first, old.second>>
            /\ matched = "FIRST" => new.state = NextIfFirst(old.state)
            /\ matched = "SECOND" => new.state = NextIfSecond(old.state)
            /\ matched = "THIRD" => new.state = NextIfThird(old.state)
            /\ matched = "NONE" => new.state = NextIfMiss(old.state)
            /\ new = ByteHistoryMatched(old, x, ByteHistoryMatching(old, x))

\* a SECOND has just swapped two different bytes in front of a third one
C21_Witness ==
    /\ slot.pc = "on"
    /\ slot.last.matched = "SECOND"
    /\ slot.last.word[1] = 66 /\ slot.last.word[2] = 65 /\ slot.last.word[3] = 255
    /\ WordFirst(slot.word) = 65 /\ WordSecond(slot.word) = 255
    /\ WordThird(slot.word) = 66

RECURSIVE RollingHash(_)
RollingHash(prefix) ==
    IF prefix = <<>> THEN 0
    ELSE ((RollingHash(SubSeq(prefix, 1, Len(prefix) - 1)) % 524288) * 160
          + prefix[Len(prefix)] + 1) % 16777216

\* the primary context after the bytes of a prefix on the encode path: each
\* byte classified by matching against the slot at the hash of the bytes
\* before it
RECURSIVE ContextAfter(_)
ContextAfter(prefix) ==
    IF prefix = <<>> THEN PrimaryContextNew
    ELSE LET before == ContextAfter(SubSeq(prefix, 1, Len(prefix) - 1))
             next_byte == prefix[Len(prefix)]
         IN  PrimaryContextMatched(before, next_byte,
                                   PrimaryContextMatching(before, next_byte))

\* the bytes the primary encoder has applied
LoggedBytes(log) ==
    [i \in 1..Cardinality({j \in 1..Len(log) : log[j].kind = "byte"}) |-> log[i].byte]

\* what C23 says of a primary context that has been given the bytes of prefix
RollingState(pc, prefix) ==
    /\ pc.previous_byte = (IF prefix = <<>> THEN 0 ELSE prefix[Len(prefix)])
    /\ pc.hash_value = RollingHash(prefix)
    /\ pc.hash_value < PRIMARY_CONTEXT_SIZE
    /\ DOMAIN pc.context =
           {RollingHash(SubSeq(prefix, 1, k - 1)) : k \in 1..Len(prefix)}
    /\ pc = ContextAfter(prefix)

\* C23: after a prefix of bytes, on the encode path and on the decode path,
\* previous_byte is the last byte and hash_value is the rolling hash of the
\* prefix, below the table size; the slots written are those at the hashes
\* before each byte; and the encoder and the decoder hold the same
\* (previous_byte, hash_value, table) after the same prefix.
C23_RollingState ==
    /\ phase = "encode" =>
           RollingState(stages["primary_context_encoder"].context,
                        LoggedBytes(stages["primary_context_encoder"].log))
    /\ phase = "decode" =>
           RollingState(stages["combined_context_decoder"].primary_context,
                        stages["combined_context_decoder"].written)

\* the decoder has written 13 bytes, some of them into a slot written
\* before, and its hash has wrapped around the table size
C23_Witness ==
    /\ phase = "decode"
    /\ Len(input) = 13
    /\ stages["combined_context_decoder"].written = input
    /\ stages["combined_context_decoder"].primary_context = ContextAfter(input)
    /\ Cardinality(DOMAIN stages["combined_context_decoder"].primary_context.context) < 13
    /\ \E k \in 1..13 :
           RollingHash(SubSeq(input, 1, k - 1)) * 160 >= PRIMARY_CONTEXT_SIZE

\* ------------------------------------------------------------------------
\* Properties of the context indices
\* ------------------------------------------------------------------------

\* the <<context, bit>> pairs C24 gives a byte of outcome matched, or the
\* end ("EOF", coded as a NONE of the slot's first byte), from the primary
\* state before it
ClaimedEvents(before, matched, byte) ==
    LET history == GetHistory(before)
        info == BridgedContextInfoNew(before.previous_byte, history, before.hash_value)
        first == FirstContext(info)
        second == SecondContext(info)
        third == ThirdContext(info)
    IN  CASE matched = "FIRST" -> <<<<first, 0>>>>
          [] matched = "SECOND" -> <<<<first, 1>>, <<second, 1>>, <<third, 0>>>>
          [] matched = "THIRD" -> <<<<first, 1>>, <<second, 1>>, <<third, 1>>>>
          [] matched = "NONE" ->
                 <<<<first, 1>>, <<second, 0>>>> \o ByteEvents(info.literal_context, byte)
          [] OTHER ->
                 <<<<first, 1>>, <<second, 0>>>>
                     \o ByteEvents(info.literal_context, history.first)

\* the pairs of the k-th item of the input, the end being item Len(input) + 1
ItemEvents(k) ==
    LET before == ContextAfter(SubSeq(input, 1, k - 1))
    IN  IF k <= Len(input)
        THEN ClaimedEvents(before, PrimaryContextMatching(before, input[k]), input[k])
        ELSE ClaimedEvents(before, "EOF", 0)

\* the pairs of the items k.. of the input
RECURSIVE EventsOfItems(_)
EventsOfItems(k) ==
    IF k > Len(input) + 1 THEN <<>> ELSE ItemEvents(k) \o EventsOfItems(k + 1)

\* C24: the pairs the encoder sends for a byte are FIRST = 0; NONE = 1, 0,
\* literal; SECOND = 1, 1, 0; THIRD = 1, 1, 1 under the first, second, third
\* and literal context of the primary state before the byte; and the pairs of
\* context index and bit the decoder has decoded are at every moment the
\* first of the encoder's pairs, and all of them once it has met the end.
C24_ContextAgreement ==
    /\ phase = "encode" =>
           LET log == stages["primary_context_encoder"].log
           IN  \A i \in 1..Len(log) :
                   /\ EventsFrom(log[i].messages, 1) = ItemEvents(i)
                   /\ log[i].kind = "byte" =>
                          log[i].matched = PrimaryContextMatching(
                              ContextAfter(SubSeq(input, 1, i - 1)), input[i])
    /\ phase = "decode" =>
           LET decoder == stages["combined_context_decoder"]
           IN  /\ IsPrefix(decoder.events, EventsOfItems(1))
               /\ decoder.closing # "no" => decoder.events = EventsOfItems(1)

\* the decoder has decoded a byte of outcome THIRD and the end after it,
\* having decoded literals before
C24_Witness ==
    /\ phase = "decode"
    /\ Len(input) = 19
    /\ stages["combined_context_decoder"].st = "ok"
    /\ Len(stages["combined_context_decoder"].events) > 13
    /\ SubSeq(stages["combined_context_decoder"].events,
              Len(stages["combined_context_decoder"].events) - 12,
              Len(stages["combined_context_decoder"].events) - 10) = ItemEvents(19)
    /\ ItemEvents(19)[3][2] = 1
    /\ \E k \in 1..18 : Len(ItemEvents(k)) = 10

\* C25: whatever the previous byte, the bytes of the slot, the match count
\* and the hash, the first, second and third decision contexts and the eight
\* contexts of a literal are below SECONDARY_CONTEXT_SIZE, which is
\* 0x4000 * 256 + (1024 + 32) * 768.
C25_SecondaryIndexBound ==
    /\ SECONDARY_CONTEXT_SIZE = 16384 * 256 + (1024 + 32) * 768
    /\ probe.pc \in {"decision", "literal"} =>
           /\ Len(probe.indices) = (IF probe.pc = "decision" THEN 3 ELSE 8)
           /\ \A i \in 1..Len(probe.indices) :
                  probe.indices[i] \in 0..(SECONDARY_CONTEXT_SIZE - 1)

\* a match count of 255 and a third context that is the last index of the
\* table
C25_Witness ==
    /\ probe.pc = "decision"
    /\ MatchCount(probe.history.state) = 255
    /\ probe.previous_byte = 255
    /\ probe.indices[3] = SECONDARY_CONTEXT_SIZE - 1

\* ------------------------------------------------------------------------
\* Properties of a literal
\* ------------------------------------------------------------------------

\* bit k of v, bit 7 being the most significant
BitOfByte(v, k) == (v \div (2 ^ k)) % 2

\* C26: the encoder codes the bits 7..0 of v, the first four under ctx + 1,
\* ctx + (h >> 3), ctx + (h >> 2), ctx + (h >> 1) with h = (v >> 4) | 16, the
\* last four under the same pattern from low_ctx = ctx + 15 * (h - 15) with
\* l = (v & 15) | 16; the decoder, given these bits, has looked up the same
\* contexts in the same order, and after the eighth returns
\* ((h - 16) << 4) | (l - 16), which is v.
C26_LiteralMirror ==
    probe.pc = "coded" =>
        LET v == probe.byte
            ctx == probe.context_index
            h == (v \div 16) + 16
            l == (v % 16) + 16
            low_ctx == ctx + 15 * (h - 15)
            contexts == <<ctx + 1, ctx + (h \div 8), ctx + (h \div 4), ctx + (h \div 2),
                          low_ctx + 1, low_ctx + (l \div 8), low_ctx + (l \div 4),
                          low_ctx + (l \div 2)>>
        IN  /\ probe.events = [i \in 1..8 |-> <<contexts[i], BitOfByte(v, 8 - i)>>]
            /\ probe.visited = SubSeq(contexts, 1, Len(probe.visited))
            /\ probe.literal.node = "done" <=> Len(probe.visited) = 8
            /\ probe.literal.node = "done" =>
                   /\ probe.literal.high = h
                   /\ probe.literal.low = l
                   /\ LiteralValue(probe.literal) = (h - 16) * 16 + (l - 16)
                   /\ LiteralValue(probe.literal) = v

\* the decoder has returned 0xA5 from the last literal context
C26_Witness ==
    /\ probe.pc = "coded"
    /\ probe.byte = 165
    /\ probe.context_index = 4194048
    /\ probe.literal.node = "done"
    /\ LiteralValue(probe.literal) = 165
    /\ probe.visited[8] = 4194048 + 15 * 11 + 10

\* ------------------------------------------------------------------------
\* Properties of the secondary table
\* ------------------------------------------------------------------------

\* the entry of a table, BitPrediction::new() where it was never written
EntryOf(table, context_index) == TableGet(table, context_index, BitPredictionNew)

\* C27: for a bit coded under an index, the prediction the coder is given,
\* by the encoder and by the decoder, is the one of the entry before the
\* update; the entry is then the one BitPrediction::update leaves for the
\* bit, no other entry has changed, and the two tables are equal.
C27_UpdateContract ==
    (probe.pc = "update" /\ probe.count > 0) =>
        LET before == EntryOf(probe.last.table, probe.last.context_index)
        IN  /\ probe.last.encoder = <<before[1], before[2], before[3], 0>>
            /\ probe.last.decoder = probe.last.encoder
            /\ EntryOf(probe.encoder, probe.last.context_index) =
                   BitPredictionUpdate(before, probe.last.bit)
            /\ EntryOf(probe.encoder, probe.last.context_index) # before
            /\ \A other \in UpdateIndices \ {probe.last.context_index} :
                   EntryOf(probe.encoder, other) = EntryOf(probe.last.table, other)
            /\ DOMAIN probe.encoder \subseteq UpdateIndices
            /\ probe.decoder = probe.encoder

\* a fourth bit under the last index, whose entry had been updated twice,
\* the first index having been updated once
C27_Witness ==
    /\ probe.pc = "update"
    /\ probe.count = 4
    /\ probe.last.context_index = SECONDARY_CONTEXT_SIZE - 1
    /\ EntryOf(probe.last.table, SECONDARY_CONTEXT_SIZE - 1)[4] = 2
    /\ EntryOf(probe.encoder, SECONDARY_CONTEXT_SIZE - 1)[4] = 3
    /\ EntryOf(probe.encoder, 0)[4] = 1
    /\ probe.last.encoder # BitPredictionGet(BitPredictionNew)

\* ------------------------------------------------------------------------
\* Properties of the encoder and the decoder together
\* ------------------------------------------------------------------------

\* the encoder at the split of its k-th bit: after the k - 1 bits before it,
\* each followed by its loop "shift bits out"
RECURSIVE EncoderAtSplit(_)
EncoderAtSplit(k) ==
    IF k = 1 THEN BitEncoderNew
    ELSE ShiftOut(EncoderSplit(EncoderAtSplit(k - 1), coded[k - 1][1], coded[k - 1][2]),
                  <<>>).encoder

\* C28: a decoder that starts from low = high = value = 0 on the bytes the
\* encoder wrote for b1..bn under p1..pn, the byte of close included, and
\* reads 0xFF past their end, decodes b1..bn under p1..pn; its first call
\* has read exactly four bytes when it splits, and at the split of each bit
\* its low and high are the encoder's at the split of that bit.
C28_CoderAgreement ==
    cphase = "dec" =>
        /\ stream[Len(stream)] = enc.low[1]
        /\ Len(decoded) <= Len(coded)
        /\ \A k \in 1..Len(decoded) : decoded[k] = coded[k][2]
        /\ decoded = <<>> => dpos <= 4
        /\ decoded # <<>> => dpos >= 4
        /\ (Len(decoded) = 1 /\ clast = "split") => dpos = 4
        /\ clast = "split" =>
               /\ csplit.low = EncoderAtSplit(Len(decoded)).low
               /\ csplit.high = EncoderAtSplit(Len(decoded)).high
               /\ csplit.prediction = coded[Len(decoded)][1]

\* three bits decoded, with bytes shifted in between them, from a stream
\* shorter than what the decoder has read: it has read 0xFF past the end
C28_Witness ==
    /\ cphase = "dec"
    /\ Len(coded) = 3
    /\ decoded = <<coded[1][2], coded[2][2], coded[3][2]>>
    /\ clast = "split"
    /\ dpos >= 5
    /\ dpos > Len(stream)
    /\ 0 \in {decoded[k] : k \in 1..3}
    /\ 1 \in {decoded[k] : k \in 1..3}

\* C29: when a renormalization loop has finished, that is at every split of
\* the encoder and of the decoder, (high ^ low) >= 2^24; and at every split
\* of the decoder low <= value <= high, whether it reads what the encoder
\* wrote, with 0xFF past the end, or arbitrary bytes.
C29_RenormalizedState ==
    clast = "split" =>
        /\ Xor8(csplit.low[1], csplit.high[1]) # 0
        /\ cphase \in {"dec", "fuzz"} =>
               /\ U32Le(csplit.low, dec.value)
               /\ U32Le(dec.value, csplit.high)

\* a decoder of arbitrary bytes at its third split, after more than four
\* bytes, with value = low above 0
C29_Witness ==
    /\ cphase = "fuzz"
    /\ clast = "split"
    /\ Len(decoded) = 3
    /\ dpos > 4
    /\ dec.value = csplit.low
    /\ csplit.low # U32Zero

\* ------------------------------------------------------------------------
\* Properties of the packed messages
\* ------------------------------------------------------------------------

MessageBit(context, bit) == [kind |-> "Bit", context |-> context, value |-> bit]

MessageByte(context, byte) == [kind |-> "Byte", context |-> context, value |-> byte]

\* what run_primary_context_encoder gives PackedMessage::bit and
\* PackedMessage::byte for an outcome
PrimaryMessages(info, matched, byte) ==
    CASE matched = "FIRST" -> <<MessageBit(FirstContext(info), 0)>>
      [] matched = "SECOND" ->
             <<MessageBit(FirstContext(info), 1), MessageBit(SecondContext(info), 1),
               MessageBit(ThirdContext(info), 0)>>
      [] matched = "THIRD" ->
             <<MessageBit(FirstContext(info), 1), MessageBit(SecondContext(info), 1),
               MessageBit(ThirdContext(info), 1)>>
      [] matched = "NONE" ->
             <<MessageBit(FirstContext(info), 1), MessageBit(SecondContext(info), 0),
               MessageByte(info.literal_context, byte)>>
      [] OTHER ->
             <<MessageBit(FirstContext(info), 1), MessageBit(SecondContext(info), 0),
               MessageByte(info.literal_context, info.first_byte)>>

\* C30: for a context below 2^30 and a bit, PackedMessage::bit(c, b).get() is
\* Bit(c, b); for a context below 2^31 that is a multiple of 256 and a byte,
\* PackedMessage::byte(c, v).get() is Byte(c, v); the contexts of the
\* messages the primary stage writes are such, and get() gives the secondary
\* stage the contexts, bits and bytes the primary stage had emitted.
C30_PackedRoundTrip ==
    /\ (probe.pc = "called" /\ probe.got # <<>>) =>
           /\ probe.kind = "Bit" =>
                  (probe.context < 1073741824
                      => probe.got = <<MessageBit(probe.context, probe.value)>>)
           /\ probe.kind = "Byte" =>
                  ((probe.context % 256 = 0 /\ probe.context <= 2147483392)
                      => probe.got = <<MessageByte(probe.context, probe.value)>>)
    /\ (probe.pc = "written" /\ probe.got # <<>>) =>
           LET emitted == PrimaryMessages(probe.info, probe.matched, probe.value)
           IN  /\ \A i \in 1..Len(emitted) :
                      IF emitted[i].kind = "Bit"
                      THEN emitted[i].context < 1073741824
                      ELSE emitted[i].context % 256 = 0 /\ emitted[i].context <= 2147483392
               /\ probe.got = emitted

\* the literal 0xFF of a NONE under the last literal context, after the bits
\* 1 and 0 under the first and second context of a match count of 255
C30_Witness ==
    /\ probe.pc = "written"
    /\ probe.matched = "NONE"
    /\ Len(probe.got) = 3
    /\ probe.got[3] = MessageByte(4194048, 255)
    /\ probe.got[1] = MessageBit(16384 * 256 + 1055 * 768 + 255, 1)
    /\ probe.got[2].value = 0

\* ------------------------------------------------------------------------
\* More properties of the pipe
\* ------------------------------------------------------------------------

\* C31: close hands the buffer over if and only if it holds at least one
\* element; a buffer in the forward channel holds between 1 and SIZE
\* elements; when close has returned Ok every element written has been
\* handed over, and a reader that then reads end-of-stream has delivered all
\* of them.
C31_CloseFlushes ==
    /\ wcall.op = "close" =>
           /\ wcall.synced <=> (~wcall.broken /\ wcall.index > 0)
           /\ (wcall.synced /\ pipe.wpc = "send") => Len(pipe.wdata) = wcall.index
    /\ \A i \in 1..Len(pipe.fwd) :
           Len(pipe.fwd[i][2]) >= 1 /\ Len(pipe.fwd[i][2]) <= pipe.size
    /\ (wcall.op = "close" /\ wcall.result = "ok") =>
           /\ wclient = "closed"
           /\ handed = given
           /\ rclient = "eof" => taken = given

\* a close of a buffer of two holding one element has handed it over and
\* returned Ok, and the reader has delivered three elements and then read
\* end-of-stream
C31_Witness ==
    /\ pipe.size = 2
    /\ wcall.op = "close" /\ wcall.synced /\ wcall.index = 1 /\ wcall.result = "ok"
    /\ rclient = "eof"
    /\ taken = <<1, 2, 3>>

\* C33: the elements written and not yet read are at most 2 * SIZE.  A
\* writer that has handed a buffer over holds none while it waits, and when
\* it holds a buffer again (so that it can write) the forward channel is
\* empty: a living reader has received every element handed over, and the
\* buffer the writer got back is the empty one it fills from index 0.
C33_Backpressure ==
    /\ Len(given) - Len(taken) <= 2 * pipe.size
    /\ pipe.wpc = "recv" => pipe.wbuf = 0
    /\ pipe.wbuf # 0 =>
           /\ pipe.fwd = <<>>
           /\ given = handed \o pipe.wdata
           /\ pipe.ralive /\ pipe.rpc = "ready" => handed = taken \o ReaderAvailable(pipe)

\* with buffers of two, four elements are written and none is read: two are
\* in the reader's buffer, two in the channel, and the writer waits
C33_Witness ==
    /\ pipe.size = 2
    /\ Len(given) = 4 /\ taken = <<>>
    /\ pipe.wpc = "recv"
    /\ Len(pipe.fwd) = 1
    /\ ReaderAvailable(pipe) = <<1, 2>>

\* C39: the debug assertions of the pipe hold.  Between operations a writer
\* that holds a buffer has index < SIZE; the writer's sync is entered with a
\* buffer and 0 < index <= SIZE; a reader always has index <= length <= SIZE;
\* every buffer a reader receives holds at least one element, so that the
\* buffer read or consume finds after sync has index < length.
C39_PipeIndexInvariants ==
    /\ (pipe.wbuf # 0 /\ pipe.wpc = "ready") => Len(pipe.wdata) < pipe.size
    /\ pipe.wpc = "send" =>
           pipe.wbuf # 0 /\ Len(pipe.wdata) > 0 /\ Len(pipe.wdata) <= pipe.size
    /\ pipe.rindex <= Len(pipe.rdata) /\ Len(pipe.rdata) <= pipe.size
    /\ pipe.rpc = "send" =>
           pipe.rbuf # 0 /\ pipe.rindex = 0 /\ Len(pipe.rdata) > 0

\* with buffers of two: the reader has read one element of a full buffer,
\* and the writer has got a buffer back and written one element to it
C39_Witness ==
    /\ pipe.size = 2
    /\ pipe.wbuf # 0 /\ pipe.wpc = "ready" /\ Len(pipe.wdata) = 1
    /\ pipe.rbuf # 0 /\ pipe.rpc = "ready" /\ pipe.rindex = 1 /\ Len(pipe.rdata) = 2
    /\ taken = <<1>>

\* ------------------------------------------------------------------------
\* More properties of the range coder
\* ------------------------------------------------------------------------

\* C34: the renormalization loop runs at most four times in one call of
\* bit: the encoder has written at most four bytes since its last split,
\* the decoder has read at most four bytes since its last split (since its
\* creation, before the first), and after a fourth iteration the interval is
\* the whole range, so that the loop has ended.
C34_RenormalizationBounded ==
    /\ cphase = "enc" =>
           /\ Len(stream) - csplit.at <= 4
           /\ Len(stream) - csplit.at = 4 =>
                  ~NeedShift(enc) /\ enc.low = U32Zero /\ enc.high = U32Max
    /\ cphase \in {"dec", "fuzz"} =>
           LET from == IF decoded = <<>> THEN 0 ELSE csplit.at
           IN  /\ dpos - from <= 4
               /\ dpos - from = 4 =>
                      ~NeedShift(dec) /\ dec.low = U32Zero /\ dec.high = U32Max

\* the encoder has coded a bit that left low = high and has then written
\* four bytes
C34_Witness ==
    /\ cphase = "enc"
    /\ clast = "shift"
    /\ coded # <<>>
    /\ Len(stream) - csplit.at = 4

\* ------------------------------------------------------------------------
\* More properties of the codec
\* ------------------------------------------------------------------------

\* C36 as stated: once the decoder has shifted in four 0xFF bytes for
\* missing input, the end marker is never decoded.
C36_EofNeverDecoded ==
    ("combined_context_decoder" \in DOMAIN stages
        /\ stages["combined_context_decoder"].past >= 4) =>
        stages["combined_context_decoder"].closing = "no"

\* C36: once the decoder has shifted in four 0xFF bytes for missing input,
\* value = high = 0xFFFFFFFF and every bit decoded from then on is Zero.  If
\* the fourth byte was shifted in for a first or a third decision bit, the
\* end marker is never decoded, and after a first decision bit every bit is
\* a first decision that emits the slot's first byte.  The end marker can
\* be decoded only by the item that was in progress at its second decision
\* bit or in its literal: the remaining bits, all Zero, finish that literal
\* before anything else is written.
C36_TruncatedInput ==
    ("combined_context_decoder" \in DOMAIN stages
        /\ stages["combined_context_decoder"].past >= 4) =>
        LET s == stages["combined_context_decoder"]
        IN  /\ s.decoder.value = U32Max /\ s.decoder.high = U32Max
            /\ \A i \in (s.mark.events + 1)..Len(s.events) : s.events[i][2] = 0
            /\ s.mark.node \in {"first", "third"} => s.closing = "no"
            /\ s.mark.node = "first" =>
                   Len(s.written) - s.mark.written = Len(s.events) - s.mark.events
            /\ s.closing # "no" =>
                   /\ s.mark.node \in {"second", "high", "low"}
                   /\ Len(s.written) = s.mark.written

\* the fourth 0xFF was shifted in for a first decision bit, and the decoder
\* has since emitted two bytes with two Zero bits and is still in its loop
C36_Witness ==
    /\ "combined_context_decoder" \in DOMAIN stages
    /\ LET s == stages["combined_context_decoder"]
       IN  /\ s.past >= 4
           /\ s.mark.node = "first"
           /\ Len(s.events) - s.mark.events >= 2
           /\ Len(s.written) - s.mark.written >= 2
           /\ s.closing = "no" /\ s.st = "run"

\* ------------------------------------------------------------------------
\* The hash on its own: PrimaryContext::matching and PrimaryContext::matched
\* both end with hash_value = (hash_value * (5 << 5) + next_byte + 1) % SIZE
\* ------------------------------------------------------------------------

\* the longest history of bytes followed
MaxHistory == 7

\* the bytes tried: the extremes, and bytes whose successors are multiples
\* and neighbours of the multiplier
HashBytes == {0, 15, 159, 160, 255}

\* a new PrimaryContext: hash_value 0
HashInit == probe = [pc |-> "hash", history |-> <<>>, hash_value |-> 0]

\* one byte goes through matching (encoder) or matched (decoder)
HashByte ==
    /\ probe.pc = "hash"
    /\ Len(probe.history) < MaxHistory
    /\ \E next_byte \in HashBytes :
        probe' = [probe EXCEPT !.history = Append(probe.history, next_byte),
                               !.hash_value = NextHash(probe.hash_value, next_byte)]
    /\ UNCHANGED <<coderVars, pipeVars, codecVars, runVars, tableVars, slot>>

HashNext == HashByte

HashSpecInit ==
    /\ HashInit
    /\ slot = [pc |-> "off"]
    /\ CoderOff /\ PipeOff /\ CodecOff /\ RunOff /\ TableOff

SpecHash == HashSpecInit /\ [][HashNext]_vars

\* the last k bytes of a history, all of it if it is shorter
LastBytes(history, k) ==
    IF Len(history) <= k THEN history
    ELSE SubSeq(history, Len(history) - k + 1, Len(history))

\* C37: hash_value is the hash of the last five bytes alone, so histories
\* that agree on their last five bytes address the same slot; for a history
\* of fewer than five bytes it is the hash of the whole history, and every
\* byte of it counts: changing any one byte addresses another slot.
C37_HashLocality ==
    probe.pc = "hash" =>
        /\ probe.hash_value = RollingHash(LastBytes(probe.history, 5))
        /\ Len(probe.history) < 5 =>
               \A i \in 1..Len(probe.history) :
                   \A byte \in (0..255) \ {probe.history[i]} :
                       RollingHash([probe.history EXCEPT ![i] = byte]) # probe.hash_value

\* a history of seven bytes whose first two bytes are not zero: they have
\* left the hash, which is that of the five bytes after them
C37_Witness ==
    /\ probe.pc = "hash"
    /\ Len(probe.history) = 7
    /\ probe.history[1] = 255 /\ probe.history[2] = 160
    /\ probe.hash_value = RollingHash(SubSeq(probe.history, 3, 7))
    /\ probe.hash_value # RollingHash(SubSeq(probe.history, 4, 7))

\* ------------------------------------------------------------------------
\* More properties of the context indices
\* ------------------------------------------------------------------------

\* the offsets of the low-nibble tree of the high nibble n
LowRange(n) == (15 * (n + 1) + 1)..(15 * (n + 1) + 15)

\* the offsets of the eight contexts of every literal
LiteralOffsets ==
    [byte \in 0..255 |-> [i \in 1..8 |-> ByteEvents(0, byte)[i][1]]]

\* bit i of the literal byte is coded under a context that another literal
\* uses at another bit, or at the same bit after other bits
LiteralAliases ==
    {a \in (0..255) \X (1..8) :
        \E other \in 0..255, j \in 1..8 :
            /\ LiteralOffsets[other][j] = LiteralOffsets[a[1]][a[2]]
            /\ ~(/\ j = a[2]
                 /\ other \div (2 ^ (9 - j)) = a[1] \div (2 ^ (9 - j)))}

\* C38: the first four contexts of a literal are at the offsets 1..15 of its
\* literal context, the last four at the offsets 15 * (n + 1) + 1 ..
\* 15 * (n + 1) + 15 for the high nibble n; these seventeen ranges are
\* pairwise disjoint and within 1..255, and a context is shared by two
\* literals only at the same bit and after the same bits.  Every literal
\* context index is below 0x400000, every decision context index is not.
C38_NoAliasing ==
    /\ \A n \in 0..15 :
           /\ LowRange(n) \subseteq 1..255
           /\ LowRange(n) \cap (1..15) = {}
           /\ \A other \in (0..15) \ {n} : LowRange(n) \cap LowRange(other) = {}
    /\ LiteralAliases = {}
    /\ probe.pc = "literal" =>
           LET base == BridgedContextInfoNew(probe.previous_byte, probe.history,
                                             probe.hash_value).literal_context
               n == probe.literal \div 16
           IN  /\ \A i \in 1..4 : probe.indices[i] - base \in 1..15
               /\ \A i \in 5..8 : probe.indices[i] - base \in LowRange(n)
               /\ \A i \in 1..8 : probe.indices[i] < 4194304
               /\ \A i \in 1..8 :
                      probe.indices[i] = base + LiteralOffsets[probe.literal][i]
    /\ probe.pc = "decision" =>
           \A i \in 1..3 : probe.indices[i] >= 4194304

\* the literal 0xFF under the last literal context: its last bit is coded
\* under 0x3FFFFF, the offset 255 of the low-nibble tree of the high nibble 15
C38_Witness ==
    /\ probe.pc = "literal"
    /\ probe.literal = 255
    /\ probe.hash_value = 16383
    /\ probe.indices[8] = 4194303
    /\ probe.indices[8] - 16383 * 256 = 255

\* ------------------------------------------------------------------------
\* main.rs: the two shared buffers between StreamEncoder::encode (the
\* producer) and ThreadedEncoder::thread (the encoder thread).  The producer
\* locks the current buffer (begin), fills it through a BufferedEncoder,
\* sends a message that names it (end, where the lock is given up once send
\* has returned) and goes on with the other buffer (flip).  The thread
\* receives a message, locks the buffer it names and encodes its first count
\* entries.  The channel holds one message.  Reads and writes of the files
\* do not fail here.
\*   buffer_which         the producer's current buffer: "one" or "two"
\*   buffers, lock        the entries of each buffer and who holds its mutex
\*   producer, count      where the producer is; BufferedEncoder.count
\*   batches, written     the buffers filled and the entries written so far
\*   channel              the messages sent and not yet received
\*   thread, message      where the thread is; the message it has received
\*   handed, encoded      what each message named when it was sent (buffer,
\*                        count, entries); what the thread encoded for each
\* ------------------------------------------------------------------------

\* the entries of a buffer (0x10000 in main.rs)
BUFFER_SIZE == 2

\* the buffers the producer fills, the last one ending with the end marker
MaxBatches == 4

BufferNew == [i \in 1..BUFFER_SIZE |-> 0]

\* ThreadedEncoder::flip
OtherBuffer(which) == IF which = "one" THEN "two" ELSE "one"

ThreadedInit ==
    probe = [pc |-> "threaded",
             buffer_which |-> "one",
             buffers |-> [one |-> BufferNew, two |-> BufferNew],
             lock |-> [one |-> "free", two |-> "free"],
             producer |-> "begin", count |-> 0, batches |-> 0, written |-> 0,
             channel |-> <<>>,
             thread |-> "recv", message |-> [buffer |-> "one", count |-> 0],
             handed |-> <<>>, encoded |-> <<>>]

\* ThreadedEncoder::begin: self.buffer().lock()
ThreadedBegin ==
    /\ probe.pc = "threaded" /\ probe.producer = "begin"
    /\ probe.lock[probe.buffer_which] = "free"
    /\ probe' = [probe EXCEPT !.lock[probe.buffer_which] = "producer",
                              !.count = 0,
                              !.producer = "fill"]
    /\ UNCHANGED <<coderVars, pipeVars, codecVars, runVars, tableVars, slot>>

\* the entries first + 1 .. first + k written to buffer[0..k]
BufferFilled(buffer, first, k) ==
    [i \in 1..BUFFER_SIZE |-> IF i <= k THEN first + i ELSE buffer[i]]

\* StreamEncoder::encode, the inner loop: BufferedEncoder::bit and byte
\* write at buffer[count] until the buffer is full, or until the input has
\* ended and the end marker is written
ThreadedFill ==
    /\ probe.pc = "threaded" /\ probe.producer = "fill"
    /\ \E eof \in BOOLEAN, k \in 1..BUFFER_SIZE :
        /\ eof \/ k = BUFFER_SIZE
        /\ eof \/ probe.batches + 1 < MaxBatches
        /\ probe' = [probe EXCEPT
                        !.buffers[probe.buffer_which] =
                            BufferFilled(probe.buffers[probe.buffer_which], probe.written, k),
                        !.count = k,
                        !.written = probe.written + k,
                        !.batches = probe.batches + 1,
                        !.producer = IF eof THEN "end_eof" ELSE "end"]
    /\ UNCHANGED <<coderVars, pipeVars, codecVars, runVars, tableVars, slot>>

\* ThreadedEncoder::end: send(ThreadMessage::new(self.buffer().clone(),
\* buffer.count())) returns when the channel has room; the BufferedEncoder
\* and its lock are dropped as end returns; then flip, unless the input has
\* ended
ThreadedEnd ==
    /\ probe.pc = "threaded" /\ probe.producer \in {"end", "end_eof"}
    /\ Len(probe.channel) < 1
    /\ LET m == [buffer |-> probe.buffer_which, count |-> probe.count]
       IN  probe' = [probe EXCEPT
                        !.channel = Append(probe.channel, m),
                        !.handed = Append(probe.handed,
                                          [buffer |-> m.buffer, count |-> m.count,
                                           entries |-> SubSeq(probe.buffers[m.buffer], 1, m.count)]),
                        !.lock[probe.buffer_which] = "free",
                        !.buffer_which = IF probe.producer = "end"
                                         THEN OtherBuffer(probe.buffer_which)
                                         ELSE probe.buffer_which,
                        !.producer = IF probe.producer = "end" THEN "begin" ELSE "flush"]
    /\ UNCHANGED <<coderVars, pipeVars, codecVars, runVars, tableVars, slot>>

\* ThreadedEncoder::flush: send(ThreadMessage::new(.., BUFFER_SIZE + 1))
ThreadedFlush ==
    /\ probe.pc = "threaded" /\ probe.producer = "flush"
    /\ Len(probe.channel) < 1
    /\ probe' = [probe EXCEPT
                    !.channel = Append(probe.channel,
                                       [buffer |-> probe.buffer_which,
                                        count |-> BUFFER_SIZE + 1]),
                    !.producer = "join"]
    /\ UNCHANGED <<coderVars, pipeVars, codecVars, runVars, tableVars, slot>>

\* ThreadedEncoder::flush: self.thread.join()
ThreadedJoin ==
    /\ probe.pc = "threaded" /\ probe.producer = "join"
    /\ probe.thread = "ok"
    /\ probe' = [probe EXCEPT !.producer = "done"]
    /\ UNCHANGED <<coderVars, pipeVars, codecVars, runVars, tableVars, slot>>

\* ThreadedEncoder::thread: receiver.recv(); break if count > BUFFER_SIZE
ThreadRecv ==
    /\ probe.pc = "threaded" /\ probe.thread = "recv"
    /\ Len(probe.channel) > 0
    /\ probe' = [probe EXCEPT
                    !.channel = Tail(probe.channel),
                    !.message = Head(probe.channel),
                    !.thread = IF Head(probe.channel).count > BUFFER_SIZE
                               THEN "ok" ELSE "lock"]
    /\ UNCHANGED <<coderVars, pipeVars, codecVars, runVars, tableVars, slot>>

\* ThreadedEncoder::thread: message.buffer.lock()
ThreadLock ==
    /\ probe.pc = "threaded" /\ probe.thread = "lock"
    /\ probe.lock[probe.message.buffer] = "free"
    /\ probe' = [probe EXCEPT !.lock[probe.message.buffer] = "thread",
                              !.thread = "encode"]
    /\ UNCHANGED <<coderVars, pipeVars, codecVars, runVars, tableVars, slot>>

\* ThreadedEncoder::thread: for i in 0..message.count, encode buffer[i];
\* the lock is dropped at the end of the loop's body
ThreadEncode ==
    /\ probe.pc = "threaded" /\ probe.thread = "encode"
    /\ probe' = [probe EXCEPT
                    !.encoded = Append(probe.encoded,
                                       [buffer |-> probe.message.buffer,
                                        count |-> probe.message.count,
                                        entries |-> SubSeq(probe.buffers[probe.message.buffer],
                                                           1, probe.message.count)]),
                    !.lock[probe.message.buffer] = "free",
                    !.thread = "recv"]
    /\ UNCHANGED <<coderVars, pipeVars, codecVars, runVars, tableVars, slot>>

ThreadedNext ==
    \/ ThreadedBegin
    \/ ThreadedFill
    \/ ThreadedEnd
    \/ ThreadedFlush
    \/ ThreadedJoin
    \/ ThreadRecv
    \/ ThreadLock
    \/ ThreadEncode

ThreadedSpecInit ==
    /\ ThreadedInit
    /\ slot = [pc |-> "off"]
    /\ CoderOff /\ PipeOff /\ CodecOff /\ RunOff /\ TableOff

SpecThreaded == ThreadedSpecInit /\ [][ThreadedNext]_vars

\* C35: every buffer the thread has encoded had the entries and the count
\* of its message at hand-off, and while a message is sent and not yet
\* encoded the producer does not hold the lock of the buffer it names, whose
\* first count entries are still those of the hand-off.
C35_SharedBufferHandOff ==
    probe.pc = "threaded" =>
        /\ \A i \in 1..Len(probe.encoded) : probe.encoded[i] = probe.handed[i]
        /\ \A i \in (Len(probe.encoded) + 1)..Len(probe.handed) :
               LET h == probe.handed[i]
               IN  /\ probe.lock[h.buffer] # "producer"
                   /\ SubSeq(probe.buffers[h.buffer], 1, h.count) = h.entries

\* the thread waits for the lock of a buffer the producer holds, and the
\* producer waits for room in the channel: neither goes on
ThreadedStuck ==
    /\ probe.pc = "threaded"
    /\ probe.thread = "lock" /\ probe.lock[probe.message.buffer] = "producer"
    /\ probe.producer \in {"end", "end_eof"} /\ Len(probe.channel) = 1

\* C32: decode of a stream that encode has produced returns Ok, in every
\* interleaving and for every buffer capacity: none of its three stages
\* returns an error.
C32_DecodeSucceeds ==
    /\ phase # "decode_failed"
    /\ phase = "decode" => \A x \in DOMAIN stages : stages[x].st # "err"

\* decode has returned Ok and its decoder has left the last byte of the
\* stream unread
LastByteUnread ==
    /\ phase = "done"
    /\ stages["combined_context_decoder"].nread < Len(compressed)

====
